---- MODULE Spec2Model ----
(***************************************************************************)
(* Trust resolution and signature verification of the bun-toolkit:        *)
(*   - createGenericResolver (resolver/genericResolver.ts): the controller *)
(*     store, resolveController with its did:web network fallback, and     *)
(*     addController;                                                      *)
(*   - credentialVerifierFromResolver.verify                               *)
(*     (credential/credentialVerifierFromResolver.ts).                     *)
(* Strings are sequences of one-character strings, so that startsWith,     *)
(* split, replace and join are computed character by character as the      *)
(* JavaScript code computes them.                                          *)
(*                                                                         *)
(* Specifications:                                                         *)
(*   Spec          resolveController and addController called directly,    *)
(*                 with calls that overlap while a fetch is pending;       *)
(*   SpecVerify    verify calls over the same resolver;                    *)
(*   SpecPartition resolveController on a bounded family of documents.     *)
(*                                                                         *)
(* A call is atomic between two suspensions.  The two awaits of a fetch    *)
(* (fetch, response.json) are one suspension: the call touches no shared   *)
(* state between them.  A header without kid is not modelled.              *)
(***************************************************************************)
EXTENDS Integers, Sequences, FiniteSets, TLC

VARIABLES controllerLookup, call, started, adds, fetchedDids, failedIds,
          lastAdd, schemaLookup, compiledSchemaCache, schemaLog, cli

\* the schema side of the resolver, with its history
schemaVars == <<schemaLookup, compiledSchemaCache, schemaLog>>

vars == <<controllerLookup, call, started, adds, fetchedDids, failedIds,
          lastAdd, schemaVars, cli>>

(***************************************************************************)
(* Bounds of the exploration.                                              *)
(***************************************************************************)
\* calls (resolveController or verify) started in one behaviour
MaxCalls == 2
\* addController calls in one behaviour
MaxAdds == 1
\* call slots: tasks that may be suspended at the same time
Calls == {1, 2}

(***************************************************************************)
(* JavaScript string operations on character sequences.                    *)
(***************************************************************************)
\* String.prototype.startsWith
StartsWith(s, p) ==
  /\ Len(p) <= Len(s)
  /\ SubSeq(s, 1, Len(p)) = p

\* index of the first occurrence of pat in s at or after i, 0 when there is none
RECURSIVE IndexOfFrom(_, _, _)
IndexOfFrom(s, pat, i) ==
  IF i + Len(pat) - 1 > Len(s) THEN 0
  ELSE IF SubSeq(s, i, i + Len(pat) - 1) = pat THEN i
  ELSE IndexOfFrom(s, pat, i + 1)

\* String.prototype.replace(pat, '') with a string pattern: removes the first
\* occurrence only
ReplaceFirstWithEmpty(s, pat) ==
  LET i == IndexOfFrom(s, pat, 1)
  IN IF i = 0 THEN s
     ELSE SubSeq(s, 1, i - 1) \o SubSeq(s, i + Len(pat), Len(s))

\* String.prototype.split(ch) for a one-character separator
RECURSIVE Split(_, _)
Split(s, ch) ==
  LET i == IndexOfFrom(s, <<ch>>, 1)
  IN IF i = 0 THEN <<s>>
     ELSE <<SubSeq(s, 1, i - 1)>> \o Split(SubSeq(s, i + 1, Len(s)), ch)

\* Array.prototype.join(sep)
RECURSIVE Join(_, _)
Join(parts, sep) ==
  IF Len(parts) = 0 THEN <<>>
  ELSE IF Len(parts) = 1 THEN parts[1]
  ELSE parts[1] \o sep \o Join(Tail(parts), sep)

\* Array.prototype.slice(1)
Slice1(arr) == IF Len(arr) = 0 THEN <<>> ELSE Tail(arr)

(***************************************************************************)
(* String literals of the code.                                            *)
(***************************************************************************)
DidWebPrefix == <<"d", "i", "d", ":", "w", "e", "b", ":">>
HttpsScheme == <<"h", "t", "t", "p", "s", ":", "/", "/">>
DidJson == <<"d", "i", "d", ".", "j", "s", "o", "n">>
WellKnown == <<".", "w", "e", "l", "l", "-", "k", "n", "o", "w", "n">>
Slash == <<"/">>

(***************************************************************************)
(* resolveController, lines 64-80: the DID of a key id and its URL.        *)
(***************************************************************************)
\* variant: the key id is used whole, its fragment kept
DidOfKeepsFragment(id) == id

\* const did = id.split('#')[0]
DidOf(id) == Split(id, "#")[1]

\* didParts, domain, pathParts, url
DidWebUrl(did) ==
  LET didParts == Split(ReplaceFirstWithEmpty(did, DidWebPrefix), ":")
      domain == didParts[1]
      pathParts == Slice1(didParts)
  IN IF Len(pathParts) > 0
     THEN HttpsScheme \o domain \o Slash \o Join(pathParts, Slash) \o Slash \o DidJson
     ELSE HttpsScheme \o domain \o Slash \o WellKnown \o Slash \o DidJson

(***************************************************************************)
(* Universe of identifiers.  A did:web identifier is built from a domain   *)
(* and path segments; a key id is a DID with an optional '#fragment'.      *)
(***************************************************************************)
RECURSIVE ColonSegs(_)
ColonSegs(segs) ==
  IF Len(segs) = 0 THEN <<>> ELSE <<":">> \o segs[1] \o ColonSegs(Tail(segs))

MkDidWeb(domain, segs) == DidWebPrefix \o domain \o ColonSegs(segs)

\* the path segments as they are written in a URL or in a command argument
RECURSIVE SlashSegs(_)
SlashSegs(segs) ==
  IF Len(segs) = 0 THEN <<>> ELSE Slash \o segs[1] \o SlashSegs(Tail(segs))

MkKeyId(did, frag) == IF Len(frag) = 0 THEN did ELSE did \o <<"#">> \o frag

Domains == {<<"a">>, <<"b">>}
SegLists == {<<>>, <<<<"p">>>>, <<<<"p">>, <<"q">>>>}
Frags == {<<>>, <<"k">>, <<"u">>}

DidWebStructs == [domain : Domains, segs : SegLists, frag : Frags]
StructId(st) == MkKeyId(MkDidWeb(st.domain, st.segs), st.frag)

DidA == MkDidWeb(<<"a">>, <<>>)
DidAP == MkDidWeb(<<"a">>, <<<<"p">>>>)
DidAPQ == MkDidWeb(<<"a">>, <<<<"p">>, <<"q">>>>)
DidB == MkDidWeb(<<"b">>, <<>>)
\* an identifier of another DID method
DidKey == <<"d", "i", "d", ":", "k", "e", "y", ":", "z">>
\* a string that names a member every JavaScript object inherits
ConstructorName == <<"c", "o", "n", "s", "t", "r", "u", "c", "t", "o", "r">>

KidAk == MkKeyId(DidA, <<"k">>)
KidAu == MkKeyId(DidA, <<"u">>)
KidAPk == MkKeyId(DidAP, <<"k">>)

\* every identifier the model uses as a store key or as an argument
AllIds ==
  {StructId(st) : st \in DidWebStructs} \cup
  {DidKey, MkKeyId(DidKey, <<"k">>), ConstructorName}

\* arguments of resolveController calls made directly on the resolver
ResolveIds == {DidA, KidAk, KidAPk, MkKeyId(DidAPQ, <<"k">>), DidKey, ConstructorName}

\* arguments of addController
AddIds == {DidA, KidAk}

(***************************************************************************)
(* Controller documents.  An optional member of a document is a record     *)
(* [present, items]; Absent is the member being undefined.                 *)
(***************************************************************************)
Absent == [present |-> FALSE, items |-> <<>>]
Some(list) == [present |-> TRUE, items |-> list]

VM(id, key) == [id |-> id, publicKeyJwk |-> key]

MkDoc(vm, am, au) ==
  [verificationMethod |-> vm, assertionMethod |-> am, authentication |-> au]

\* a document as did-generate writes it: an assertion key 'k' and an
\* authentication key 'u'
DocA ==
  MkDoc(Some(<<VM(KidAk, "KA"), VM(KidAu, "KU")>>), Some(<<KidAk>>), Some(<<KidAu>>))

\* the document of another controller, published under a path of the same
\* domain, with that controller's own key
DocAP == MkDoc(Some(<<VM(KidAPk, "KE")>>), Some(<<KidAPk>>), Absent)

Docs == {DocA, DocAP}

NoDoc == MkDoc(Absent, Absent, Absent)

(***************************************************************************)
(* JavaScript values held by the store or by the local 'controller'.       *)
(***************************************************************************)
UndefinedVal == [tag |-> "undefined", doc |-> NoDoc]
NullVal == [tag |-> "null", doc |-> NoDoc]
DocVal(d) == [tag |-> "doc", doc |-> d]
\* a member inherited from Object.prototype, e.g. the Object constructor
InheritedVal == [tag |-> "function", doc |-> NoDoc]

Truthy(v) == v.tag \in {"doc", "function"}

\* names that the object literal {} of line 34 inherits
ObjectPrototypeNames == {ConstructorName}

\* controllerLookup[id] on the plain object of line 34: an own property, else
\* an inherited member, else undefined
Get(lookup, id) ==
  IF lookup[id].tag # "undefined" THEN lookup[id]
  ELSE IF id \in ObjectPrototypeNames THEN InheritedVal
  ELSE UndefinedVal

Range(seq) == {seq[i] : i \in 1..Len(seq)}

\* variant: the assertion set is filled from the authentication list
AssertionKeysByAuthentication(controller) ==
  LET d == controller.doc
      Listed(e) == d.authentication.present /\ e.id \in Range(d.authentication.items)
  IN IF d.verificationMethod.present
     THEN SelectSeq(d.verificationMethod.items, Listed)
     ELSE <<>>

\* lines 100-113: the keys pushed to assertionKeys
AssertionKeys(controller) ==
  LET d == controller.doc
      Listed(e) == d.assertionMethod.present /\ e.id \in Range(d.assertionMethod.items)
  IN IF d.verificationMethod.present
     THEN SelectSeq(d.verificationMethod.items, Listed)
     ELSE <<>>

\* lines 100-113: the keys pushed to authenticationKeys
AuthenticationKeys(controller) ==
  LET d == controller.doc
      Listed(e) == d.authentication.present /\ e.id \in Range(d.authentication.items)
  IN IF d.verificationMethod.present
     THEN SelectSeq(d.verificationMethod.items, Listed)
     ELSE <<>>

(***************************************************************************)
(* Public-key verifier set (resolver/publicKeyResolver.ts, spec 4.6).      *)
(***************************************************************************)
\* resolve(keyId): the verifier bound to the key listed under keyId
HasKey(keys, keyId) == \E i \in 1..Len(keys) : keys[i].id = keyId

KeyOf(keys, keyId) ==
  keys[CHOOSE i \in 1..Len(keys) : keys[i].id = keyId].publicKeyJwk

\* Verifier.verify: the signature checks against the bound public key
SignatureChecks(jws, publicKey) == jws.signedBy = publicKey

(***************************************************************************)
(* Signed objects handed to verify.                                        *)
(***************************************************************************)
IssuerAbsent == [form |-> "absent", id |-> <<>>]
IssuerString(did) == [form |-> "string", id |-> did]
IssuerObject(did) == [form |-> "object", id |-> did]
\* an issuer object without an id member
IssuerObjectNoId == [form |-> "object", id |-> <<>>]

Issuers ==
  {IssuerAbsent, IssuerObjectNoId,
   IssuerString(DidA), IssuerObject(DidA),
   IssuerString(DidB), IssuerObject(DidB),
   IssuerString(DidAP)}

\* header kid values
Kids == {KidAk, KidAu, KidAPk}

\* the private key that produced the signature, named by its public key
Signers == {"KA", "KU", "KE"}

\* a string that is not a three-segment signed object
Malformed == [wellFormed |-> FALSE, kid |-> <<>>, issuer |-> IssuerAbsent, signedBy |-> "none"]

SignedObjects ==
  {Malformed} \cup [wellFormed : {TRUE}, kid : Kids, issuer : Issuers, signedBy : Signers]

(***************************************************************************)
(* verify, lines 248-265 of credentialVerifierFromResolver.                *)
(***************************************************************************)
\* !credential.issuer
IssuerMissing(jws) ==
  \/ jws.issuer.form = "absent"
  \/ jws.issuer.form = "string" /\ Len(jws.issuer.id) = 0

\* issuerDid: the issuer string, or the id member of the issuer object
IssuerDidOf(jws) == jws.issuer.id

\* variant: only the DID method of the issuer is compared with the kid
BindingHoldsMethodOnly(jws) ==
  StartsWith(jws.kid, SubSeq(IssuerDidOf(jws), 1, Len(DidWebPrefix)))

\* assertionKeyId.startsWith(issuerDid)
BindingHolds(jws) == StartsWith(jws.kid, IssuerDidOf(jws))

(***************************************************************************)
(* One call in progress: its arguments, locals, position and outcome.      *)
(***************************************************************************)
IdleCall ==
  [op |-> "none", pc |-> "idle", id |-> <<>>, jws |-> Malformed,
   controller |-> UndefinedVal, did |-> <<>>, url |-> <<>>, nreq |-> 0,
   fetchResult |-> "none", rcResult |-> "none", result |-> "none",
   assertion |-> <<>>, authentication |-> <<>>, steps |-> <<>>,
   localAtStart |-> UndefinedVal, idAtStart |-> UndefinedVal,
   afterFetch |-> FALSE, afterFail |-> FALSE, peerOk |-> FALSE,
   validateSchema |-> FALSE, credentialSchema |-> <<>>, shape |-> "A"]

\* lines 96-118 of resolveController: throw when there is no controller, else
\* return the two verifier sets
RcFinish(cr, controller) ==
  IF ~Truthy(controller)
  THEN [cr EXCEPT !.controller = controller, !.rcResult = "ControllerNotFound"]
  ELSE [cr EXCEPT !.controller = controller, !.rcResult = "ok",
                  !.assertion = AssertionKeys(controller),
                  !.authentication = AuthenticationKeys(controller)]

\* lines 276-281 of verify: the signature has been verified
Verified(cr) ==
  IF cr.validateSchema
  THEN [cr EXCEPT !.pc = "schema", !.steps = cr.steps \o <<"key", "signature">>]
  ELSE [cr EXCEPT !.pc = "done", !.result = "ok",
                  !.steps = cr.steps \o <<"key", "signature">>]

\* variant: a missing assertion key is not treated as an error
VerifyFinishLenient(cr) ==
  IF cr.rcResult # "ok"
  THEN [cr EXCEPT !.pc = "done", !.result = cr.rcResult]
  ELSE IF ~HasKey(cr.assertion, cr.jws.kid)
  THEN [cr EXCEPT !.pc = "done", !.result = "ok",
                  !.steps = cr.steps \o <<"key", "signature">>]
  ELSE IF ~SignatureChecks(cr.jws, KeyOf(cr.assertion, cr.jws.kid))
  THEN [cr EXCEPT !.pc = "done", !.result = "SignatureInvalid",
                  !.steps = cr.steps \o <<"key", "signature">>]
  ELSE Verified(cr)

\* variant: the verifier is resolved among the keys of both roles
VerifyFinishAnyRole(cr) ==
  LET keys == cr.assertion \o cr.authentication
  IN IF cr.rcResult # "ok"
     THEN [cr EXCEPT !.pc = "done", !.result = cr.rcResult]
     ELSE IF ~HasKey(keys, cr.jws.kid)
     THEN [cr EXCEPT !.pc = "done", !.result = "KeyNotFound",
                     !.steps = Append(cr.steps, "key")]
     ELSE IF ~SignatureChecks(cr.jws, KeyOf(keys, cr.jws.kid))
     THEN [cr EXCEPT !.pc = "done", !.result = "SignatureInvalid",
                     !.steps = cr.steps \o <<"key", "signature">>]
     ELSE Verified(cr)

\* variant: the schemas are validated although the signature does not verify
VerifyFinishSchemaUnverified(cr) ==
  IF cr.rcResult # "ok"
  THEN [cr EXCEPT !.pc = "done", !.result = cr.rcResult]
  ELSE IF ~HasKey(cr.assertion, cr.jws.kid)
  THEN [cr EXCEPT !.pc = "done", !.result = "KeyNotFound",
                  !.steps = Append(cr.steps, "key")]
  ELSE IF ~SignatureChecks(cr.jws, KeyOf(cr.assertion, cr.jws.kid))
          /\ ~cr.validateSchema
  THEN [cr EXCEPT !.pc = "done", !.result = "SignatureInvalid",
                  !.steps = cr.steps \o <<"key", "signature">>]
  ELSE Verified(cr)

\* lines 268-281 of verify, after resolveController has settled
VerifyFinish(cr) ==
  IF cr.rcResult # "ok"
  THEN [cr EXCEPT !.pc = "done", !.result = cr.rcResult]
  ELSE IF ~HasKey(cr.assertion, cr.jws.kid)
  THEN [cr EXCEPT !.pc = "done", !.result = "KeyNotFound",
                  !.steps = Append(cr.steps, "key")]
  ELSE IF ~SignatureChecks(cr.jws, KeyOf(cr.assertion, cr.jws.kid))
  THEN [cr EXCEPT !.pc = "done", !.result = "SignatureInvalid",
                  !.steps = cr.steps \o <<"key", "signature">>]
  ELSE Verified(cr)

\* the caller resumes with the outcome of resolveController
Settle(cr) ==
  IF cr.op = "verify" THEN VerifyFinish(cr)
  ELSE [cr EXCEPT !.pc = "done", !.result = cr.rcResult]

\* lines 59-83 of resolveController, up to the first suspension
RcBegin(cr, id, lookup) ==
  LET controller == Get(lookup, id)
      did == DidOf(id)
      entered == [cr EXCEPT !.id = id, !.controller = controller,
                            !.localAtStart = Get(lookup, did),
                            !.idAtStart = lookup[id],
                            !.afterFetch = did \in fetchedDids,
                            !.afterFail = id \in failedIds]
  IN IF ~Truthy(controller) /\ StartsWith(id, DidWebPrefix) /\ Len(did) > 0
     THEN [entered EXCEPT !.did = did, !.url = DidWebUrl(did),
                          !.nreq = entered.nreq + 1, !.pc = "fetch"]
     ELSE Settle(RcFinish(entered, controller))

\* lines 244-268 of verify, up to the first suspension
VerifyBegin(cr, jws, lookup) ==
  LET entered == [cr EXCEPT !.jws = jws, !.steps = <<"parse">>]
  IN IF ~jws.wellFormed
     THEN [entered EXCEPT !.pc = "done", !.result = "MalformedInput"]
     ELSE IF IssuerMissing(jws)
     THEN [entered EXCEPT !.pc = "done", !.result = "MissingIssuer",
                          !.steps = <<"parse", "issuer">>]
     ELSE IF Len(IssuerDidOf(jws)) = 0
     THEN [entered EXCEPT !.pc = "done", !.result = "MissingIssuerId",
                          !.steps = <<"parse", "issuer">>]
     ELSE IF ~BindingHolds(jws)
     THEN [entered EXCEPT !.pc = "done", !.result = "IssuerKeyMismatch",
                          !.steps = <<"parse", "issuer", "binding">>]
     ELSE RcBegin([entered EXCEPT !.steps = <<"parse", "issuer", "binding", "controller">>],
                  jws.kid, lookup)

(***************************************************************************)
(* The schema side of the resolver: schemaLookup and compiledSchemaCache   *)
(* are plain objects (genericResolver.ts lines 35-36); a schema is a JSON  *)
(* Schema object or a boolean schema; a compiled validator is a function.  *)
(***************************************************************************)
\* resolveSchema and addSchema calls in one behaviour
MaxSchemaOps == 4

SchemaS1 == <<"s", "1">>
SchemaS2 == <<"s", "2">>
\* schema ids used as arguments; one of them names an inherited member
SchemaIds == {SchemaS1, SchemaS2, ConstructorName}

UndefinedSchema == [tag |-> "undefined", body |-> "none"]
ObjectSchema(b) == [tag |-> "object", body |-> b]
\* the boolean schema false, which no value satisfies
FalseSchema == [tag |-> "false", body |-> "none"]
\* a member inherited from Object.prototype, read where a schema is expected
InheritedSchema == [tag |-> "function", body |-> "none"]

\* values of type Schema passed to addSchema
Schemas == {ObjectSchema("A"), ObjectSchema("B"), FalseSchema}

UndefinedValidator == [tag |-> "undefined", of |-> UndefinedSchema, serial |-> 0]
\* the function object that the n-th run of the compile step creates
Validator(schema, n) == [tag |-> "validator", of |-> schema, serial |-> n]
InheritedValidator == [tag |-> "function", of |-> UndefinedSchema, serial |-> 0]

\* schemaLookup[id] on the plain object of line 35
SchemaGet(lookup, id) ==
  IF lookup[id].tag # "undefined" THEN lookup[id]
  ELSE IF id \in ObjectPrototypeNames THEN InheritedSchema
  ELSE UndefinedSchema

\* compiledSchemaCache[id] on the plain object of line 36
CacheGet(cache, id) ==
  IF cache[id].tag # "undefined" THEN cache[id]
  ELSE IF id \in ObjectPrototypeNames THEN InheritedValidator
  ELSE UndefinedValidator

\* if (compiledSchemaCache[id]), if (!schema)
TruthySchema(v) == v.tag \in {"object", "function", "validator"}

NoSchemas == [id \in SchemaIds |-> UndefinedSchema]
NoValidators == [id \in SchemaIds |-> UndefinedValidator]

\* no resolveSchema call has returned yet
NoReturn == [id |-> <<>>, outcome |-> "none", validator |-> UndefinedValidator,
             latest |-> UndefinedSchema, stored |-> FALSE]

\* history of the schema side: calls made, runs of the compile step in all
\* and per id since the id was last stored, successful returns and the set
\* of validators returned per id since then, the schema last stored per id,
\* and the last resolveSchema call with its outcome
SchemaLogInit(lookup) ==
  [ops |-> 0, serial |-> 0,
   compiles |-> [id \in SchemaIds |-> 0],
   returns |-> [id \in SchemaIds |-> 0],
   returned |-> [id \in SchemaIds |-> {}],
   latest |-> lookup,
   last |-> NoReturn]

\* createGenericResolver(controllers, schemas): lines 44-48
SchemaSeeds == {NoSchemas, [NoSchemas EXCEPT ![SchemaS2] = ObjectSchema("A")]}

\* lastAdd records the call of addController a step makes; every other
\* resolver step sets it back to NoAdd
NoAdd == [id |-> <<>>, doc |-> NoDoc, before |-> UndefinedVal]

\* no command of the command line has run
CliIdle == [input |-> [op |-> "none"], outcome |-> "none", output |-> [kind |-> "none"]]

\* a resolver whose schema side is empty and unused, and no command run
SideIdle ==
  /\ lastAdd = NoAdd
  /\ schemaLookup = NoSchemas
  /\ compiledSchemaCache = NoValidators
  /\ schemaLog = SchemaLogInit(NoSchemas)
  /\ cli = CliIdle

(***************************************************************************)
(* State machine.                                                          *)
(***************************************************************************)
NoOwn == [id \in AllIds |-> UndefinedVal]

\* createGenericResolver(controllers): the store starts empty or pre-seeded
Seeds == {NoOwn, [NoOwn EXCEPT ![DidA] = DocVal(DocA), ![DidKey] = DocVal(DocAP)]}

Init ==
  /\ controllerLookup \in Seeds
  /\ call = [c \in Calls |-> IdleCall]
  /\ started = 0
  /\ adds = 0
  /\ fetchedDids = {}
  /\ failedIds = {}
  /\ SideIdle

\* a settled call is observed by its caller before anything else runs
Quiet == \A c \in Calls : call[c].pc # "done"

\* variant: a new call waits until no call is suspended
FreeSerialized(c) ==
  /\ Quiet
  /\ call[c].pc = "idle"
  /\ \A d \in Calls : call[d].pc = "idle"

\* a new call takes the first slot that holds no call
Free(c) ==
  /\ Quiet
  /\ call[c].pc = "idle"
  /\ \A d \in Calls : d < c => call[d].pc # "idle"

\* resolver.resolveController(id) called directly
ResolveController(c, id) ==
  /\ Free(c)
  /\ started < MaxCalls
  /\ started' = started + 1
  /\ call' = [call EXCEPT ![c] =
                RcBegin([IdleCall EXCEPT !.op = "resolveController"], id, controllerLookup)]
  /\ UNCHANGED <<controllerLookup, adds, fetchedDids, failedIds, schemaVars, cli>>
  /\ lastAdd' = NoAdd

\* verifier.verify(jwsString)
Verify(c, jws) ==
  /\ Free(c)
  /\ started < MaxCalls
  /\ started' = started + 1
  /\ call' = [call EXCEPT ![c] =
                VerifyBegin([IdleCall EXCEPT !.op = "verify"], jws, controllerLookup)]
  /\ UNCHANGED <<controllerLookup, adds, fetchedDids, failedIds, schemaVars, cli>>
  /\ lastAdd' = NoAdd

\* await fetch(url) rejects (network failure): caught at line 90
FetchRejects(c) ==
  /\ Quiet
  /\ call[c].pc = "fetch"
  /\ call' = [call EXCEPT ![c] =
                Settle(RcFinish([call[c] EXCEPT !.fetchResult = "networkError"],
                                call[c].controller))]
  /\ failedIds' = failedIds \cup {call[c].id}
  /\ UNCHANGED <<controllerLookup, started, adds, fetchedDids, schemaVars, cli>>
  /\ lastAdd' = NoAdd

\* variant: a response that is not ok is remembered as a null entry
FetchNotOkCached(c) ==
  /\ Quiet
  /\ call[c].pc = "fetch"
  /\ call' = [call EXCEPT ![c] =
                Settle(RcFinish([call[c] EXCEPT !.fetchResult = "notOk"],
                                call[c].controller))]
  /\ controllerLookup' = [controllerLookup EXCEPT ![call[c].did] = NullVal]
  /\ failedIds' = failedIds \cup {call[c].id}
  /\ UNCHANGED <<started, adds, fetchedDids, schemaVars, cli>>
  /\ lastAdd' = NoAdd

\* variant: after a response that is not ok the request is issued once more
FetchNotOkRetried(c) ==
  /\ Quiet
  /\ call[c].pc = "fetch"
  /\ call' = [call EXCEPT ![c] =
                IF call[c].nreq < 2
                THEN [call[c] EXCEPT !.nreq = call[c].nreq + 1]
                ELSE Settle(RcFinish([call[c] EXCEPT !.fetchResult = "notOk"],
                                     call[c].controller))]
  /\ failedIds' = failedIds \cup {call[c].id}
  /\ UNCHANGED <<controllerLookup, started, adds, fetchedDids, schemaVars, cli>>
  /\ lastAdd' = NoAdd

\* the response is not ok: line 84 skips the body
FetchNotOk(c) ==
  /\ Quiet
  /\ call[c].pc = "fetch"
  /\ call' = [call EXCEPT ![c] =
                Settle(RcFinish([call[c] EXCEPT !.fetchResult = "notOk"],
                                call[c].controller))]
  /\ failedIds' = failedIds \cup {call[c].id}
  /\ UNCHANGED <<controllerLookup, started, adds, fetchedDids, schemaVars, cli>>
  /\ lastAdd' = NoAdd

\* the response is ok and await response.json() throws on a body that is not
\* JSON: caught at line 90
JsonFails(c) ==
  /\ Quiet
  /\ call[c].pc = "fetch"
  /\ call' = [call EXCEPT ![c] =
                Settle(RcFinish([call[c] EXCEPT !.fetchResult = "unparseable"],
                                call[c].controller))]
  /\ failedIds' = failedIds \cup {call[c].id}
  /\ UNCHANGED <<controllerLookup, started, adds, fetchedDids, schemaVars, cli>>
  /\ lastAdd' = NoAdd

\* call d is suspended on a request for the DID that call c requested
SameRequest(c, d) ==
  /\ d # c
  /\ call[d].pc = "fetch"
  /\ call[d].did = call[c].did

\* the response is ok and await response.json() yields a value: lines 85-88;
\* a call still waiting for the same DID notes that this request succeeded
JsonSettles(c, body) ==
  /\ Quiet
  /\ call[c].pc = "fetch"
  /\ controllerLookup' = [controllerLookup EXCEPT ![call[c].did] = body]
  /\ call' = [d \in Calls |->
                IF d = c
                THEN Settle(RcFinish([call[c] EXCEPT !.fetchResult = body.tag], body))
                ELSE IF body.tag = "doc" /\ SameRequest(c, d)
                THEN [call[d] EXCEPT !.peerOk = TRUE]
                ELSE call[d]]
  /\ fetchedDids' = IF body.tag = "doc" THEN fetchedDids \cup {call[c].did} ELSE fetchedDids
  /\ UNCHANGED <<started, adds, failedIds, schemaVars, cli>>
  /\ lastAdd' = NoAdd

\* variant: an id that already has an entry keeps it
AddControllerKeepsExisting(id, doc) ==
  /\ Quiet
  /\ adds < MaxAdds
  /\ adds' = adds + 1
  /\ controllerLookup' =
       IF controllerLookup[id].tag = "undefined"
       THEN [controllerLookup EXCEPT ![id] = DocVal(doc)]
       ELSE controllerLookup
  /\ lastAdd' = [id |-> id, doc |-> doc, before |-> controllerLookup[id]]
  /\ UNCHANGED <<call, started, fetchedDids, failedIds, schemaVars, cli>>

\* addController(id, controller), lines 138-140
AddController(id, doc) ==
  /\ Quiet
  /\ adds < MaxAdds
  /\ adds' = adds + 1
  /\ controllerLookup' = [controllerLookup EXCEPT ![id] = DocVal(doc)]
  /\ lastAdd' = [id |-> id, doc |-> doc, before |-> controllerLookup[id]]
  /\ UNCHANGED <<call, started, fetchedDids, failedIds, schemaVars, cli>>

\* the promise of a settled call is consumed by its caller
Return(c) ==
  /\ call[c].pc = "done"
  /\ call' = [call EXCEPT ![c] = IdleCall]
  /\ UNCHANGED <<controllerLookup, started, adds, fetchedDids, failedIds, lastAdd, schemaVars, cli>>

\* values that response.json() yields
Bodies == {NullVal} \cup {DocVal(d) : d \in Docs}

\* what happens to the calls in progress and to the store, whoever started them
Progress ==
  \/ \E c \in Calls : FetchRejects(c)
  \/ \E c \in Calls : FetchNotOk(c)
  \/ \E c \in Calls : JsonFails(c)
  \/ \E c \in Calls, body \in Bodies : JsonSettles(c, body)
  \/ \E id \in AddIds, doc \in Docs : AddController(id, doc)
  \/ \E c \in Calls : Return(c)

\* the resolver used directly, by callers that may overlap
Next ==
  \/ \E c \in Calls, id \in ResolveIds : ResolveController(c, id)
  \/ Progress

Spec == Init /\ [][Next]_vars

\* the verifier over the resolver: verify calls one after the other, while
\* the store is written by addController at any time
NextVerify ==
  \/ \E jws \in SignedObjects : Verify(1, jws)
  \/ Progress

SpecVerify == Init /\ [][NextVerify]_vars

(***************************************************************************)
(* resolveSchema and addSchema (genericResolver.ts lines 121-146).  Neither *)
(* awaits anything, so each call is one step.                              *)
(***************************************************************************)
\* ajv.compile(schema) throws on a value that is neither an object nor a
\* boolean
Compiles(schema) == schema.tag \in {"object", "false"}

\* the record of a resolveSchema(id) call
Returned(id, outcome, validator) ==
  [id |-> id, outcome |-> outcome, validator |-> validator,
   latest |-> schemaLog.latest[id],
   stored |-> schemaLog.latest[id].tag # "undefined"]

\* variant: the compiled validator is returned without being cached
ResolveSchemaUncached(id) ==
  /\ Quiet
  /\ schemaLog.ops < MaxSchemaOps
  /\ LET cached == CacheGet(compiledSchemaCache, id)
         schema == SchemaGet(schemaLookup, id)
         n == schemaLog.serial + 1
         compiled == Validator(schema, n)
         counted == [schemaLog EXCEPT !.ops = @ + 1]
     IN IF TruthySchema(cached)
        THEN /\ schemaLog' = [counted EXCEPT !.returns[id] = @ + 1,
                                             !.returned[id] = @ \cup {cached},
                                             !.last = Returned(id, "ok", cached)]
             /\ UNCHANGED compiledSchemaCache
        ELSE IF ~TruthySchema(schema)
        THEN /\ schemaLog' = [counted EXCEPT
                                !.last = Returned(id, "SchemaNotFound", UndefinedValidator)]
             /\ UNCHANGED compiledSchemaCache
        ELSE IF ~Compiles(schema)
        THEN /\ schemaLog' = [counted EXCEPT
                                !.serial = n, !.compiles[id] = @ + 1,
                                !.last = Returned(id, "CompileError", UndefinedValidator)]
             /\ UNCHANGED compiledSchemaCache
        ELSE /\ schemaLog' = [counted EXCEPT
                                !.serial = n, !.compiles[id] = @ + 1,
                                !.returns[id] = @ + 1,
                                !.returned[id] = @ \cup {compiled},
                                !.last = Returned(id, "ok", compiled)]
             /\ UNCHANGED compiledSchemaCache
  /\ UNCHANGED <<controllerLookup, call, started, adds, fetchedDids, failedIds,
                 lastAdd, schemaLookup, cli>>

\* the body of resolveSchema(id), lines 121-136: what it does to the cache
\* and to the history
ResolveSchemaStep(id) ==
  LET cached == CacheGet(compiledSchemaCache, id)
      schema == SchemaGet(schemaLookup, id)
      n == schemaLog.serial + 1
      compiled == Validator(schema, n)
      counted == [schemaLog EXCEPT !.ops = @ + 1]
  IN IF TruthySchema(cached)
     THEN /\ schemaLog' = [counted EXCEPT !.returns[id] = @ + 1,
                                          !.returned[id] = @ \cup {cached},
                                          !.last = Returned(id, "ok", cached)]
          /\ UNCHANGED compiledSchemaCache
     ELSE IF ~TruthySchema(schema)
     THEN /\ schemaLog' = [counted EXCEPT
                             !.last = Returned(id, "SchemaNotFound", UndefinedValidator)]
          /\ UNCHANGED compiledSchemaCache
     ELSE IF ~Compiles(schema)
     THEN /\ schemaLog' = [counted EXCEPT
                             !.serial = n, !.compiles[id] = @ + 1,
                             !.last = Returned(id, "CompileError", UndefinedValidator)]
          /\ UNCHANGED compiledSchemaCache
     ELSE /\ schemaLog' = [counted EXCEPT
                             !.serial = n, !.compiles[id] = @ + 1,
                             !.returns[id] = @ + 1,
                             !.returned[id] = @ \cup {compiled},
                             !.last = Returned(id, "ok", compiled)]
          /\ compiledSchemaCache' = [compiledSchemaCache EXCEPT ![id] = compiled]

\* resolveSchema(id) called directly
ResolveSchema(id) ==
  /\ Quiet
  /\ schemaLog.ops < MaxSchemaOps
  /\ ResolveSchemaStep(id)
  /\ UNCHANGED <<controllerLookup, call, started, adds, fetchedDids, failedIds,
                 lastAdd, schemaLookup, cli>>

\* addSchema(id, schema), lines 142-146
AddSchema(id, schema) ==
  /\ Quiet
  /\ schemaLog.ops < MaxSchemaOps
  /\ schemaLookup' = [schemaLookup EXCEPT ![id] = schema]
  /\ compiledSchemaCache' = [compiledSchemaCache EXCEPT ![id] = UndefinedValidator]
  /\ schemaLog' = [schemaLog EXCEPT !.ops = @ + 1,
                                    !.compiles[id] = 0,
                                    !.returns[id] = 0,
                                    !.returned[id] = {},
                                    !.latest[id] = schema,
                                    !.last = NoReturn]
  /\ UNCHANGED <<controllerLookup, call, started, adds, fetchedDids, failedIds,
                 lastAdd, cli>>

\* a resolver created with or without schemas, no controller call in progress
InitSchema ==
  /\ controllerLookup = NoOwn
  /\ call = [c \in Calls |-> IdleCall]
  /\ started = 0
  /\ adds = 0
  /\ fetchedDids = {}
  /\ failedIds = {}
  /\ lastAdd = NoAdd
  /\ schemaLookup \in SchemaSeeds
  /\ compiledSchemaCache = NoValidators
  /\ schemaLog = SchemaLogInit(schemaLookup)
  /\ cli = CliIdle

NextSchema ==
  \/ \E id \in SchemaIds : ResolveSchema(id)
  \/ \E id \in SchemaIds, schema \in Schemas : AddSchema(id, schema)

SpecSchema == InitSchema /\ [][NextSchema]_vars

(***************************************************************************)
(* Both sides of one resolver used by callers that overlap: controller     *)
(* calls for one DID under two ids and for another DID, and schema calls   *)
(* made while a controller call is suspended.                              *)
(***************************************************************************)
ConcurrentIds == {DidA, KidAk, DidB}
ConcurrentSchemaIds == {SchemaS1}
ConcurrentSchemas == {ObjectSchema("A")}

\* schema calls made beside the controller calls in one behaviour
MaxSideOps == 1

\* some resolveController call is suspended on its request, and a schema call
\* may still be made
Overlapped ==
  /\ \E c \in Calls : call[c].pc = "fetch"
  /\ schemaLog.ops < MaxSideOps

NextConcurrent ==
  \/ \E c \in Calls, id \in ConcurrentIds : ResolveController(c, id)
  \/ \E c \in Calls : FetchNotOk(c)
  \/ \E c \in Calls : JsonSettles(c, DocVal(DocA))
  \/ \E c \in Calls : Return(c)
  \/ AddController(KidAk, DocA)
  \/ \E id \in ConcurrentSchemaIds : Overlapped /\ ResolveSchema(id)
  \/ \E id \in ConcurrentSchemaIds, schema \in ConcurrentSchemas :
       Overlapped /\ AddSchema(id, schema)

SpecConcurrent == Init /\ [][NextConcurrent]_vars

(***************************************************************************)
(* verify with its options: the schema step of lines 276-279, and calls of *)
(* verify and resolveController made one after the other on one resolver.  *)
(***************************************************************************)
\* the compiled validator run on a payload of the given shape
Validates(validator, shape) ==
  /\ validator.tag = "validator"
  /\ validator.of.tag = "object"
  /\ validator.of.body = shape

\* validateCredentialSchemas after resolveSchema has returned for the first
\* remaining entry of payload.credentialSchema: a schema that is not found
\* ends the call, a failing schema is reported once every entry was run
SchemaChecked(cr, returned) ==
  IF returned.outcome # "ok"
  THEN [cr EXCEPT !.pc = "done", !.result = returned.outcome,
                  !.steps = Append(cr.steps, "schema")]
  ELSE [cr EXCEPT !.credentialSchema = Tail(cr.credentialSchema),
                  !.result = IF Validates(returned.validator, cr.shape)
                             THEN cr.result ELSE "SchemaValidation"]

\* await validateCredentialSchemas(verifiedCredential, resolver), line 278
ValidateSchema(c) ==
  /\ Quiet
  /\ call[c].pc = "schema"
  /\ IF Len(call[c].credentialSchema) = 0
     THEN /\ call' = [call EXCEPT ![c] =
                        [call[c] EXCEPT
                           !.pc = "done",
                           !.result = IF call[c].result = "none" THEN "ok" ELSE call[c].result,
                           !.steps = Append(call[c].steps, "schema")]]
          /\ UNCHANGED <<compiledSchemaCache, schemaLog>>
     ELSE /\ ResolveSchemaStep(Head(call[c].credentialSchema))
          /\ call' = [call EXCEPT ![c] = SchemaChecked(call[c], schemaLog'.last)]
  /\ UNCHANGED <<controllerLookup, started, adds, fetchedDids, failedIds,
                 schemaLookup, cli>>
  /\ lastAdd' = NoAdd

\* verifier.verify(jwsString, {validateSchema}) of an object whose payload
\* has the given credentialSchema ids and shape
VerifyWith(c, jws, validateSchema, credentialSchema, shape) ==
  /\ Free(c)
  /\ started < MaxCalls
  /\ started' = started + 1
  /\ call' = [call EXCEPT ![c] =
                VerifyBegin([IdleCall EXCEPT !.op = "verify",
                                             !.validateSchema = validateSchema,
                                             !.credentialSchema = credentialSchema,
                                             !.shape = shape],
                            jws, controllerLookup)]
  /\ UNCHANGED <<controllerLookup, adds, fetchedDids, failedIds, schemaVars, cli>>
  /\ lastAdd' = NoAdd

\* signed objects of an attacker: the issuer may be any string, a key id too
OrderIssuers ==
  {IssuerAbsent, IssuerString(DidA), IssuerString(DidB), IssuerString(KidAk)}
OrderObjects ==
  {Malformed} \cup
  [wellFormed : {TRUE}, kid : {KidAk, KidAPk}, issuer : OrderIssuers,
   signedBy : {"KA", "KE"}]
\* validateSchema, payload.credentialSchema, shape of the payload
OrderOptions ==
  {<<FALSE, <<SchemaS2>>, "A">>, <<TRUE, <<>>, "A">>, <<TRUE, <<SchemaS2>>, "A">>,
   <<TRUE, <<SchemaS2>>, "B">>, <<TRUE, <<SchemaS1>>, "A">>,
   <<TRUE, <<SchemaS2, SchemaS1>>, "B">>}

\* a resolver created with or without controllers and schemas
InitOrder ==
  /\ controllerLookup \in Seeds
  /\ call = [c \in Calls |-> IdleCall]
  /\ started = 0
  /\ adds = 0
  /\ fetchedDids = {}
  /\ failedIds = {}
  /\ lastAdd = NoAdd
  /\ schemaLookup \in SchemaSeeds
  /\ compiledSchemaCache = NoValidators
  /\ schemaLog = SchemaLogInit(schemaLookup)
  /\ cli = CliIdle

NextOrder ==
  \/ \E jws \in OrderObjects, options \in OrderOptions :
       VerifyWith(1, jws, options[1], options[2], options[3])
  \/ \E id \in {KidAk, DidB} : ResolveController(1, id)
  \/ FetchRejects(1)
  \/ FetchNotOk(1)
  \/ JsonFails(1)
  \/ \E body \in {NullVal, DocVal(DocA)} : JsonSettles(1, body)
  \/ ValidateSchema(1)
  \/ Return(1)

SpecOrder == InitOrder /\ [][NextOrder]_vars

(***************************************************************************)
(* Command line workflows (src/cli/commands).  A command runs from its     *)
(* arguments, the environment and the files it reads to its exit; cli      *)
(* holds the last command run, with what it read and what it produced.     *)
(***************************************************************************)
\* credential files given to 'presentation create'
MaxCreds == 2

\* an optional number: a member of a payload or of the signing options
NoNum == [present |-> FALSE, n |-> 0]
Num(n) == [present |-> TRUE, n |-> n]
\* if (x) on an optional number: undefined and 0 are falsy
TruthyNum(x) == x.present /\ x.n # 0

\* an optional string: a command line option or an environment variable
NoOption == [present |-> FALSE, value |-> <<>>]
Option(str) == [present |-> TRUE, value |-> str]
\* if (x) on an optional string: undefined and "" are falsy
TruthyOption(o) == o.present /\ Len(o.value) > 0

\* an optional date string (validFrom, validUntil), held as the instant it
\* names in milliseconds; a date string that is there is truthy
NoDate == [present |-> FALSE, ms |-> 0]
DateAt(ms) == [present |-> TRUE, ms |-> ms]

Digits == <<"0", "1", "2", "3", "4", "5", "6", "7", "8", "9">>
DigitValue(ch) == (CHOOSE i \in 1..Len(Digits) : Digits[i] = ch) - 1

\* parseInt on a string of decimal digits
RECURSIVE ParseIntFrom(_, _)
ParseIntFrom(s, acc) ==
  IF Len(s) = 0 THEN acc
  ELSE ParseIntFrom(Tail(s), acc * 10 + DigitValue(Head(s)))

ParseInt(s) == ParseIntFrom(s, 0)

\* new Date(seconds * 1000): milliseconds in a second
MsPerSecond == 1000
\* the documented default of --expires-in, in seconds
DefaultExpiresIn == 3600

\* readings of the wall clock, in milliseconds
ClockReadings == {5000, 5250}

\* Math.floor(Date.now() / 1000)
EpochSeconds(nowMs) == nowMs \div MsPerSecond

\* a credential file that holds a signed object, by what verifier.verify
\* yields for it: it throws, or it returns the payload with its optional exp,
\* nbf, validFrom and validUntil members
DatedPayload(verifies, exp, nbf, validFrom, validUntil) ==
  [blank |-> FALSE, verifies |-> verifies, exp |-> exp, nbf |-> nbf,
   validFrom |-> validFrom, validUntil |-> validUntil]

Payload(verifies, exp, nbf) == DatedPayload(verifies, exp, nbf, NoDate, NoDate)

\* a credential file that is empty once trimmed
BlankFile ==
  [blank |-> TRUE, verifies |-> FALSE, exp |-> NoNum, nbf |-> NoNum,
   validFrom |-> NoDate, validUntil |-> NoDate]

\* the private-key file: which of its two members are there
KeyFile(assertion, authentication) ==
  [assertion |-> assertion, authentication |-> authentication]

\* kid members of the two private keys that 'did generate' writes
AssertionKid == <<"k">>
AuthenticationKid == <<"u">>
\* the public keys that belong to the two private keys of a key file
AssertionKeyName == "KA"
AuthenticationKeyName == "KU"

\* lines 258-301 of createPresentation: the first credential, in the order
\* given, that stops the command, or "none"
RECURSIVE FirstRejection(_, _)
FirstRejection(creds, nowMs) ==
  IF Len(creds) = 0 THEN "none"
  ELSE LET credential == Head(creds)
       IN IF credential.blank THEN "MissingCredentialData"
          ELSE IF ~credential.verifies THEN "VerificationFailed"
          ELSE IF TruthyNum(credential.exp)
                  /\ credential.exp.n * MsPerSecond < nowMs
          THEN "Expired"
          ELSE IF TruthyNum(credential.nbf)
                  /\ credential.nbf.n * MsPerSecond > nowMs
          THEN "NotYetValid"
          ELSE FirstRejection(Tail(creds), nowMs)

\* lines 322-335 of createPresentation: the options handed to the signer
SigningOptions(kid, expiresIn, nowMs) ==
  IF TruthyOption(expiresIn)
  THEN LET now == EpochSeconds(nowMs)
       IN [kid |-> kid, iat |-> Num(now),
           exp |-> Num(now + ParseInt(expiresIn.value))]
  ELSE [kid |-> kid, iat |-> NoNum, exp |-> NoNum]

\* createEnvelopedVerifiableCredential(jwt): the credential as it was loaded,
\* wrapped (spec 3, Verifiable Presentation)
Enveloped(jwt) == [type |-> "EnvelopedVerifiableCredential", jwt |-> jwt]

\* variant: the enveloped credentials come out in the opposite order
EnvelopedCredentialsReversed(creds) ==
  [i \in 1..Len(creds) |-> Enveloped(creds[Len(creds) + 1 - i])]

\* line 306: credentialJWTs.map(jwt => createEnvelopedVerifiableCredential(jwt))
EnvelopedCredentials(creds) == [i \in 1..Len(creds) |-> Enveloped(creds[i])]

\* (await signer(key)).sign(presentation, signingOptions): the signed object
\* is signed with key, carries the kid in its header and the iat and exp of
\* the options, and no claim of its own (spec 4.1, 4.3)
SignedPresentation(key, holder, enveloped, signingOptions) ==
  [holder |-> holder, verifiableCredential |-> enveloped,
   kid |-> signingOptions.kid, signedBy |-> key,
   iat |-> signingOptions.iat, exp |-> signingOptions.exp]

NoPresentation ==
  SignedPresentation("none", <<>>, <<>>, [kid |-> <<>>, iat |-> NoNum, exp |-> NoNum])

\* createPresentation that signs with the assertion key when the file has no
\* authentication key
CreatePresentationRunAnyKey(holder, envIssuerDid, keys, creds, expiresIn, nowMs) ==
  LET holderDid == IF TruthyOption(holder) THEN holder ELSE envIssuerDid
      rejection == FirstRejection(creds, nowMs)
      input == [op |-> "presentation create", holder |-> holder,
                envIssuerDid |-> envIssuerDid, keys |-> keys, creds |-> creds,
                expiresIn |-> expiresIn, nowMs |-> nowMs]
      Exit(why) == [input |-> input, outcome |-> why, output |-> NoPresentation]
      key == IF keys.authentication THEN AuthenticationKeyName ELSE AssertionKeyName
      kid == IF keys.authentication THEN AuthenticationKid ELSE AssertionKid
  IN IF ~TruthyOption(holderDid) THEN Exit("NoHolder")
     ELSE IF ~keys.authentication /\ ~keys.assertion THEN Exit("NoAuthenticationKey")
     ELSE IF rejection # "none" THEN Exit(rejection)
     ELSE [input |-> input, outcome |-> "created",
           output |-> SignedPresentation(key, holderDid.value,
                        EnvelopedCredentials(creds),
                        SigningOptions(kid, expiresIn, nowMs))]

\* createPresentation(credentialFiles, options) with the environment, the
\* private-key file, the credential files and the clock; every path given is
\* a file that can be read
CreatePresentationRun(holder, envIssuerDid, keys, creds, expiresIn, nowMs) ==
  LET holderDid == IF TruthyOption(holder) THEN holder ELSE envIssuerDid
      rejection == FirstRejection(creds, nowMs)
      input == [op |-> "presentation create", holder |-> holder,
                envIssuerDid |-> envIssuerDid, keys |-> keys, creds |-> creds,
                expiresIn |-> expiresIn, nowMs |-> nowMs]
      Exit(why) == [input |-> input, outcome |-> why, output |-> NoPresentation]
  IN IF ~TruthyOption(holderDid) THEN Exit("NoHolder")
     ELSE IF ~keys.authentication THEN Exit("NoAuthenticationKey")
     ELSE IF rejection # "none" THEN Exit(rejection)
     ELSE [input |-> input, outcome |-> "created",
           output |-> SignedPresentation(AuthenticationKeyName, holderDid.value,
                        EnvelopedCredentials(creds),
                        SigningOptions(AuthenticationKid, expiresIn, nowMs))]

HolderOptions == {NoOption, Option(DidB)}
EnvIssuerDids == {NoOption, Option(DidA)}
KeyFiles == {KeyFile(TRUE, TRUE), KeyFile(TRUE, FALSE), KeyFile(FALSE, TRUE)}
ExpiresInOptions ==
  {NoOption, Option(<<"0">>), Option(<<"6", "0">>), Option(<<"3", "6", "0", "0">>)}

\* a process of the command line runs one command and exits
NoCommandYet == cli.input.op = "none"

\* 'presentation create <files> [--holder] [--expires-in]'
CreatePresentation(holder, envIssuerDid, keys, creds, expiresIn, nowMs) ==
  /\ NoCommandYet
  /\ cli' = CreatePresentationRun(holder, envIssuerDid, keys, creds, expiresIn, nowMs)
  /\ UNCHANGED <<controllerLookup, call, started, adds, fetchedDids, failedIds,
                 lastAdd, schemaVars>>

(***************************************************************************)
(* issueCredential (src/unnamed/part_001 lines 304-345) and the commands   *)
(* 'credential sign', 'did generate' and 'did verify'.                     *)
(***************************************************************************)
\* the type member of a credential JSON value: absent, a string or an array
TypeAbsent == [kind |-> "absent", items |-> <<>>]
TypeString(name) == [kind |-> "string", items |-> <<name>>]
TypeArray(names) == [kind |-> "array", items |-> names]
\* if (type): undefined and "" are falsy, every array is truthy
TruthyType(type) ==
  \/ type.kind = "array"
  \/ type.kind = "string" /\ type.items[1] # ""

\* Array.isArray(credential.type) ? credential.type : [credential.type]
CredentialTypes(type) ==
  IF type.kind = "array" THEN type.items ELSE <<type.items[1]>>

BaseType == "VerifiableCredential"
SpecificType == "ExampleCredential"

\* issueCredential(issuerDid, privateKeyPath, credentialTypes, data, options):
\* it throws without an assertion key, else signs a credential with the
\* given type array, issuer issuerDid and the validity dates of the options,
\* with the assertion key under the kid issuerDid#kid
IssueCredentialRun(issuerDid, keys, credentialTypes, validFrom, validUntil) ==
  IF ~keys.assertion
  THEN [outcome |-> "NoAssertionKey", jws |-> Malformed]
  ELSE [outcome |-> "signed",
        jws |-> [wellFormed |-> TRUE,
                 kid |-> issuerDid \o <<"#">> \o AssertionKid,
                 issuer |-> IssuerString(issuerDid),
                 signedBy |-> AssertionKeyName,
                 type |-> credentialTypes,
                 validFrom |-> validFrom,
                 validUntil |-> validUntil]]

\* the environment read by loadFromEnv
Env(issuerDid, llmApiKey, privateKeyPath) ==
  [issuerDid |-> issuerDid, llmApiKey |-> llmApiKey, privateKeyPath |-> privateKeyPath]

\* the credential JSON file: whether it has @context and credentialSubject,
\* its type, its issuer and its validity dates
DatedCredentialJson(context, type, subject, issuer, validFrom, validUntil) ==
  [context |-> context, type |-> type, subject |-> subject, issuer |-> issuer,
   validFrom |-> validFrom, validUntil |-> validUntil]

CredentialJson(context, type, subject, issuer) ==
  DatedCredentialJson(context, type, subject, issuer, NoDate, NoDate)

\* signCredential(credentialFile, options), lines 15-98
SignCredentialRun(issuer, env, keys, file) ==
  LET configIssuerDid == IF TruthyOption(issuer) THEN issuer ELSE env.issuerDid
      issuerDid == IF TruthyOption(file.issuer) THEN file.issuer ELSE configIssuerDid
      input == [op |-> "credential sign", issuer |-> issuer, env |-> env,
                keys |-> keys, file |-> file]
      Exit(why) == [input |-> input, outcome |-> why, output |-> Malformed]
      issued == IssueCredentialRun(issuerDid.value, keys, CredentialTypes(file.type),
                                   file.validFrom, file.validUntil)
  IN IF ~env.llmApiKey \/ ~TruthyOption(configIssuerDid) \/ ~env.privateKeyPath
     THEN Exit("ConfigurationError")
     ELSE IF ~file.context THEN Exit("MissingContext")
     ELSE IF ~TruthyType(file.type) THEN Exit("MissingType")
     ELSE IF ~file.subject THEN Exit("MissingCredentialSubject")
     ELSE [input |-> input, outcome |-> issued.outcome, output |-> issued.jws]

IssuerOptions == {NoOption, Option(DidB)}
Envs ==
  {Env(NoOption, TRUE, TRUE), Env(Option(DidA), TRUE, TRUE),
   Env(Option(DidA), FALSE, TRUE), Env(Option(DidA), TRUE, FALSE)}
TypeValues ==
  {TypeAbsent, TypeString(""), TypeString(SpecificType), TypeArray(<<>>),
   TypeArray(<<BaseType>>), TypeArray(<<SpecificType>>),
   TypeArray(<<BaseType, SpecificType>>)}

FullType == TypeArray(<<BaseType, SpecificType>>)

CredentialJsons ==
  {CredentialJson(TRUE, type, TRUE, NoOption) : type \in TypeValues}
  \cup {CredentialJson(TRUE, FullType, TRUE, Option(DidAP)),
        CredentialJson(FALSE, FullType, TRUE, NoOption),
        CredentialJson(TRUE, FullType, FALSE, Option(DidAP)),
        DatedCredentialJson(TRUE, FullType, TRUE, NoOption, DateAt(6000), DateAt(4000))}

\* 'credential sign <file> [--issuer]'
SignCredential(issuer, env, keys, file) ==
  /\ NoCommandYet
  /\ cli' = SignCredentialRun(issuer, env, keys, file)
  /\ UNCHANGED <<controllerLookup, call, started, adds, fetchedDids, failedIds,
                 lastAdd, schemaVars>>

\* what extractStructure gets from the language model: no usable answer, or
\* a JSON answer with its credentialTypes member
Structure(ok, credentialTypes) == [ok |-> ok, credentialTypes |-> credentialTypes]

\* issueCredential(sourceDocument, options) of credential-issue.ts, lines
\* 11-98, with extractStructure (utils/path.ts lines 307-336)
IssueCommandRun(issuer, env, keys, document, structure, validFrom, validUntil) ==
  LET configIssuerDid == IF TruthyOption(issuer) THEN issuer ELSE env.issuerDid
      input == [op |-> "credential issue", issuer |-> issuer, env |-> env,
                keys |-> keys, document |-> document, structure |-> structure,
                validFrom |-> validFrom, validUntil |-> validUntil]
      Exit(why) == [input |-> input, outcome |-> why, output |-> Malformed]
      issued == IssueCredentialRun(configIssuerDid.value, keys,
                                   structure.credentialTypes.items,
                                   validFrom, validUntil)
  IN IF ~env.llmApiKey \/ ~TruthyOption(configIssuerDid) \/ ~env.privateKeyPath
     THEN Exit("ConfigurationError")
     ELSE IF ~document THEN Exit("DocumentNotFound")
     ELSE IF ~structure.ok THEN Exit("ExtractionFailed")
     ELSE IF ~TruthyType(structure.credentialTypes) THEN Exit("InvalidStructure")
     ELSE IF structure.credentialTypes.kind # "array" THEN Exit("TypeError")
     ELSE [input |-> input, outcome |-> issued.outcome, output |-> issued.jws]

Structures ==
  {Structure(FALSE, TypeAbsent)} \cup {Structure(TRUE, type) : type \in TypeValues}
\* --valid-from and --valid-until
ValidityOptions == {<<NoDate, NoDate>>, <<NoDate, DateAt(4000)>>, <<DateAt(6000), NoDate>>}

\* 'credential issue <document> [--issuer] [--valid-from] [--valid-until]'
IssueCommand(issuer, env, keys, document, structure, validity) ==
  /\ NoCommandYet
  /\ cli' = IssueCommandRun(issuer, env, keys, document, structure,
                            validity[1], validity[2])
  /\ UNCHANGED <<controllerLookup, call, started, adds, fetchedDids, failedIds,
                 lastAdd, schemaVars>>

\* what verifier.verify returns for a credential that issueCredential signed
\* and whose issuer resolves: the members issueCredential gave it (part_001
\* lines 323-336), with no exp and no nbf, since the signer was handed the
\* kid only (line 341) and adds no claim of its own (spec 4.1)
IssuedPayload(jws) ==
  DatedPayload(TRUE, NoNum, NoNum, jws.validFrom, jws.validUntil)

\* files written by 'credential issue' with each choice of --valid-from and
\* --valid-until
IssuedFiles ==
  {IssuedPayload(IssueCredentialRun(DidA, KeyFile(TRUE, TRUE),
                                    <<BaseType, SpecificType>>,
                                    validity[1], validity[2]).jws) :
     validity \in ValidityOptions}

CredentialFiles ==
  {BlankFile,
   Payload(FALSE, NoNum, NoNum),
   Payload(TRUE, NoNum, NoNum),
   Payload(TRUE, Num(4), NoNum),
   Payload(TRUE, Num(3605), NoNum),
   Payload(TRUE, Num(0), NoNum),
   Payload(TRUE, Num(5), Num(5)),
   Payload(TRUE, NoNum, Num(6))} \cup IssuedFiles

CredentialLists == UNION {[1..k -> CredentialFiles] : k \in 1..MaxCreds}

\* process.exit(1)
ExitFailure == 1

\* what 'credential verify' leaves behind: whether the verified message was
\* printed, whether the payload was run against the schema, and the status
\* of process.exit if the command called it
VerifyReport(success, schemaRun, exit) ==
  [success |-> success, schemaRun |-> schemaRun, exit |-> exit]

\* variant: a payload that fails the schema is reported as verified
VerifyCommandRunSchemaIgnored(schema, files) ==
  LET input == [op |-> "credential verify", schema |-> schema, files |-> files]
      Exit(why, schemaRun) ==
        [input |-> input, outcome |-> why,
         output |-> VerifyReport(FALSE, schemaRun, Num(ExitFailure))]
  IN IF ~files.exists THEN Exit("FileNotFound", FALSE)
     ELSE IF ~files.readable THEN Exit("ReadFailed", FALSE)
     ELSE IF ~files.verifies THEN Exit("VerificationFailed", FALSE)
     ELSE IF ~TruthyOption(schema)
     THEN [input |-> input, outcome |-> "verified",
           output |-> VerifyReport(TRUE, FALSE, NoNum)]
     ELSE IF ~files.schemaExists THEN Exit("SchemaFileNotFound", FALSE)
     ELSE IF ~files.schemaCompiles THEN Exit("SchemaError", FALSE)
     ELSE [input |-> input, outcome |-> "verified",
           output |-> VerifyReport(TRUE, TRUE, NoNum)]

\* verifyCredential(credentialFile, options), credential-verify.ts lines 10-97
VerifyCommandRun(schema, files) ==
  LET input == [op |-> "credential verify", schema |-> schema, files |-> files]
      Exit(why, schemaRun) ==
        [input |-> input, outcome |-> why,
         output |-> VerifyReport(FALSE, schemaRun, Num(ExitFailure))]
  IN IF ~files.exists THEN Exit("FileNotFound", FALSE)
     ELSE IF ~files.readable THEN Exit("ReadFailed", FALSE)
     ELSE IF ~files.verifies THEN Exit("VerificationFailed", FALSE)
     ELSE IF ~TruthyOption(schema)
     THEN [input |-> input, outcome |-> "verified",
           output |-> VerifyReport(TRUE, FALSE, NoNum)]
     ELSE IF ~files.schemaExists THEN Exit("SchemaFileNotFound", FALSE)
     ELSE IF ~files.schemaCompiles THEN Exit("SchemaError", FALSE)
     ELSE IF ~files.valid THEN Exit("SchemaInvalid", TRUE)
     ELSE [input |-> input, outcome |-> "verified",
           output |-> VerifyReport(TRUE, TRUE, NoNum)]

SchemaOptions == {NoOption, Option(<<>>), Option(<<"s">>)}
\* the credential file (is it there, can it be read, what verifier.verify
\* does with its content) and the schema file (is it there, does it load and
\* compile, does the payload satisfy it)
VerifyFileSets ==
  [exists : BOOLEAN, readable : BOOLEAN, verifies : BOOLEAN,
   schemaExists : BOOLEAN,
   schemaCompiles : BOOLEAN, valid : BOOLEAN]

\* 'credential verify <file> [--schema]'
VerifyCommand(schema, files) ==
  /\ NoCommandYet
  /\ cli' = VerifyCommandRun(schema, files)
  /\ UNCHANGED <<controllerLookup, call, started, adds, fetchedDids, failedIds,
                 lastAdd, schemaVars>>

\* parts.slice(1).filter(p => p.length > 0)
NonEmpty(p) == Len(p) > 0

\* --algorithm after toUpperCase, ES256 when the option is not given
Algorithm(option) ==
  IF option = "none" THEN "ES256"
  ELSE IF option = "es384" THEN "ES384"
  ELSE option

AlgorithmOptions == {"none", "ES256", "es384", "RS256"}

\* the document that generateDid builds for didId, lines 75-114
GeneratedDocument(didId) ==
  LET assertionId == didId \o <<"#">> \o AssertionKid
      authenticationId == didId \o <<"#">> \o AuthenticationKid
  IN MkDoc(Some(<<VM(assertionId, AssertionKeyName),
                  VM(authenticationId, AuthenticationKeyName)>>),
           Some(<<assertionId>>), Some(<<authenticationId>>))

NoGenerated == [did |-> <<>>, document |-> NoDoc, keys |-> KeyFile(FALSE, FALSE)]

\* variant: the path of the input is appended as it is
GenerateDidKeepsSlashes(domainInput, algorithm) ==
  LET input == [op |-> "did generate", domainInput |-> domainInput,
                algorithm |-> algorithm]
      didId == DidWebPrefix \o domainInput
  IN IF Algorithm(algorithm) \notin {"ES256", "ES384"}
     THEN [input |-> input, outcome |-> "UnsupportedAlgorithm", output |-> NoGenerated]
     ELSE [input |-> input, outcome |-> "generated",
           output |-> [did |-> didId, document |-> GeneratedDocument(didId),
                       keys |-> KeyFile(TRUE, TRUE)]]

\* generateDid(domainInput, options), lines 28-114
GenerateDidRun(domainInput, algorithm) ==
  LET parts == Split(domainInput, "/")
      domain == parts[1]
      pathParts == SelectSeq(Slice1(parts), NonEmpty)
      didPath == IF Len(pathParts) > 0 THEN <<":">> \o Join(pathParts, <<":">>) ELSE <<>>
      didId == DidWebPrefix \o domain \o didPath
      input == [op |-> "did generate", domainInput |-> domainInput,
                algorithm |-> algorithm]
  IN IF Algorithm(algorithm) \notin {"ES256", "ES384"}
     THEN [input |-> input, outcome |-> "UnsupportedAlgorithm", output |-> NoGenerated]
     ELSE [input |-> input, outcome |-> "generated",
           output |-> [did |-> didId, document |-> GeneratedDocument(didId),
                       keys |-> KeyFile(TRUE, TRUE)]]

\* the input <domain>[/p1/.../pn] for a domain and path segments
DomainInput(domain, segs) == domain \o SlashSegs(segs)

DomainInputs == {DomainInput(domain, segs) : domain \in Domains, segs \in SegLists}

\* 'did generate <domain>[/path] [--algorithm]'
GenerateDid(domainInput, algorithm) ==
  /\ NoCommandYet
  /\ cli' = GenerateDidRun(domainInput, algorithm)
  /\ UNCHANGED <<controllerLookup, call, started, adds, fetchedDids, failedIds,
                 lastAdd, schemaVars>>

\* didParts, domain, pathParts and url of verifyDid (src/unnamed/part_002
\* lines 23-35)
VerifyDidUrl(did) ==
  LET didParts == Split(ReplaceFirstWithEmpty(did, DidWebPrefix), ":")
      domain == didParts[1]
      pathParts == Slice1(didParts)
  IN IF Len(pathParts) > 0
     THEN HttpsScheme \o domain \o Slash \o Join(pathParts, Slash) \o Slash \o DidJson
     ELSE HttpsScheme \o domain \o Slash \o WellKnown \o Slash \o DidJson

\* what the request of verifyDid meets
Responses == {"networkError", "notOk", "invalidJson", "invalidDocument", "valid"}

\* verifyDid(did, options), lines 8-90; from is the command that produced
\* the DID, if any
VerifyDidRun(did, response, from) ==
  LET input == [op |-> "did verify", did |-> did, response |-> response, from |-> from]
  IN IF ~StartsWith(did, DidWebPrefix)
     THEN [input |-> input, outcome |-> "InvalidDidFormat", output |-> [url |-> <<>>]]
     ELSE [input |-> input,
           outcome |-> IF response = "valid" THEN "verified" ELSE response,
           output |-> [url |-> VerifyDidUrl(did)]]

HasGenerated == cli.input.op = "did generate" /\ cli.outcome = "generated"

\* DIDs given to 'did verify' that no command of the model generated
VerifyDids == {DidKey, DidB}

VerifiableDids ==
  IF HasGenerated THEN VerifyDids \cup {cli.output.did} ELSE VerifyDids

\* 'did verify <did>', on a DID typed in or on the one just generated
VerifyDid(did, response) ==
  /\ \/ NoCommandYet /\ did \in VerifyDids
     \/ HasGenerated /\ did = cli.output.did
  /\ cli' = VerifyDidRun(did, response, cli)
  /\ UNCHANGED <<controllerLookup, call, started, adds, fetchedDids, failedIds,
                 lastAdd, schemaVars>>

\* the assertion key id of the identifier that 'did generate' produced
GeneratedKid == cli.output.did \o <<"#">> \o AssertionKid

\* no command has run and the resolver of the process is new
InitCli ==
  /\ controllerLookup = NoOwn
  /\ call = [c \in Calls |-> IdleCall]
  /\ started = 0
  /\ adds = 0
  /\ fetchedDids = {}
  /\ failedIds = {}
  /\ SideIdle

NextCli ==
  \/ /\ NoCommandYet
     /\ \E holder \in HolderOptions, envIssuerDid \in EnvIssuerDids, keys \in KeyFiles,
           creds \in CredentialLists, expiresIn \in ExpiresInOptions,
           nowMs \in ClockReadings :
          CreatePresentation(holder, envIssuerDid, keys, creds, expiresIn, nowMs)
  \/ /\ NoCommandYet
     /\ \E issuer \in IssuerOptions, env \in Envs, keys \in KeyFiles,
           file \in CredentialJsons :
          SignCredential(issuer, env, keys, file)
  \/ /\ NoCommandYet
     /\ \E issuer \in IssuerOptions, env \in Envs, keys \in KeyFiles,
           document \in BOOLEAN, structure \in Structures,
           validity \in ValidityOptions :
          IssueCommand(issuer, env, keys, document, structure, validity)
  \/ /\ NoCommandYet
     /\ \E schema \in SchemaOptions, files \in VerifyFileSets :
          VerifyCommand(schema, files)
  \/ /\ NoCommandYet
     /\ \E domainInput \in DomainInputs, algorithm \in AlgorithmOptions :
          GenerateDid(domainInput, algorithm)
  \/ \E did \in VerifiableDids, response \in Responses :
       VerifyDid(did, response)
  \/ \E c \in Calls : HasGenerated /\ ResolveController(c, GeneratedKid)

SpecCli == InitCli /\ [][NextCli]_vars

(***************************************************************************)
(* The round trip: 'did generate', the generated document given to the     *)
(* resolver, issueCredential with the generated key file, and verify.      *)
(***************************************************************************)
\* resolver.addController(d, document) for the generated identifier
HostInResolver ==
  /\ HasGenerated
  /\ AddController(cli.output.did, cli.output.document)

\* issueCredential(d, <generated key file>, ...) for the generated identifier
IssueGenerated ==
  /\ HasGenerated
  /\ Quiet
  /\ LET issued == IssueCredentialRun(cli.output.did, cli.output.keys,
                                      <<BaseType, SpecificType>>, NoDate, NoDate)
     IN cli' = [input |-> [op |-> "issueCredential", issuerDid |-> cli.output.did,
                           keys |-> cli.output.keys, from |-> cli],
                outcome |-> issued.outcome, output |-> issued.jws]
  /\ UNCHANGED <<controllerLookup, call, started, adds, fetchedDids, failedIds,
                 lastAdd, schemaVars>>

HasIssued == cli.input.op = "issueCredential" /\ cli.outcome = "signed"

\* verifier.verify of the credential just issued
VerifyIssued(c) ==
  /\ HasIssued
  /\ Verify(c, cli.output)

\* the generated document is served at the URL of the request
GeneratedServed(c) ==
  /\ HasIssued
  /\ JsonSettles(c, DocVal(cli.input.from.output.document))

\* identifiers of the resolver's universe are generated
RoundTripInputs == {DomainInput(<<"a">>, <<>>), DomainInput(<<"a">>, <<<<"p">>>>)}

NextRoundTrip ==
  \/ \E domainInput \in RoundTripInputs, algorithm \in AlgorithmOptions :
       GenerateDid(domainInput, algorithm)
  \/ HostInResolver
  \/ IssueGenerated
  \/ VerifyIssued(1)
  \/ \E c \in Calls : FetchRejects(c)
  \/ \E c \in Calls : FetchNotOk(c)
  \/ \E c \in Calls : JsonFails(c)
  \/ \E c \in Calls : GeneratedServed(c)
  \/ \E c \in Calls : Return(c)

SpecRoundTrip == InitCli /\ [][NextRoundTrip]_vars

(***************************************************************************)
(* The partition of a controller document into the two key sets, applied   *)
(* to every document of a bounded family pre-seeded under did:web:a.       *)
(***************************************************************************)
\* longest verificationMethod array
MaxVm == 2
\* longest assertionMethod / authentication array
MaxListed == 2

SeqsUpTo(S, n) == UNION {[1..k -> S] : k \in 0..n}
Optional(lists) == {Absent} \cup {Some(l) : l \in lists}

VmEntries == {VM(KidAk, "KA"), VM(KidAu, "KU")}
\* KidAPk is listed by some documents without a verificationMethod entry
ListedIds == {KidAk, KidAu, KidAPk}

RichDocs ==
  {MkDoc(vm, am, au) :
     vm \in Optional(SeqsUpTo(VmEntries, MaxVm)),
     am \in Optional(SeqsUpTo(ListedIds, MaxListed)),
     au \in Optional(SeqsUpTo(ListedIds, MaxListed))}

InitPartition ==
  /\ controllerLookup \in {[NoOwn EXCEPT ![DidA] = DocVal(d)] : d \in RichDocs}
  /\ call = [c \in Calls |-> IdleCall]
  /\ started = 0
  /\ adds = 0
  /\ fetchedDids = {}
  /\ failedIds = {}
  /\ SideIdle

NextPartition ==
  \/ \E c \in Calls : ResolveController(c, DidA)
  \/ \E c \in Calls : Return(c)

SpecPartition == InitPartition /\ [][NextPartition]_vars

(***************************************************************************)
(* Properties.                                                             *)
(***************************************************************************)
IsVerify(c) == call[c].op = "verify"
Settled(c) == call[c].rcResult \in {"ok", "ControllerNotFound"}
Done(c) == call[c].pc = "done"

\* p is an initial segment of s
IsPrefix(p, s) == \E n \in 0..Len(s) : p = [i \in 1..n |-> s[i]]

\* the issuer is given as a bare string or as an object with an id
IssuerGiven(jws) ==
  /\ jws.wellFormed
  /\ jws.issuer.form \in {"string", "object"}
  /\ Len(jws.issuer.id) > 0

\* C1: a signed object whose header kid does not start with the issuer DID is
\* rejected by verify with the issuer/key mismatch error, before any request,
\* whatever key signed it and whatever the store holds.
C1_BindingMismatchRejected ==
  \A c \in Calls :
    (IsVerify(c) /\ IssuerGiven(call[c].jws)
       /\ ~IsPrefix(call[c].jws.issuer.id, call[c].jws.kid))
    => /\ Done(c)
       /\ call[c].result = "IssuerKeyMismatch"
       /\ call[c].nreq = 0

\* kid did:web:a#k with issuer did:web:b, validly signed by the key that the
\* stored document of did:web:a lists under that kid
C1_Witness ==
  \E c \in Calls :
    /\ IsVerify(c) /\ Done(c)
    /\ call[c].jws.kid = KidAk
    /\ call[c].jws.issuer = IssuerString(DidB)
    /\ call[c].jws.signedBy = "KA"
    /\ controllerLookup[DidA] = DocVal(DocA)
    /\ call[c].result = "IssuerKeyMismatch"

\* C2: verify returns a payload only when the DID under which the controller
\* document was resolved (header kid without its fragment) is exactly the
\* payload's issuer DID.
C2_VerifiedKeyOwnedByIssuer ==
  \A c \in Calls :
    (IsVerify(c) /\ call[c].result = "ok")
    => DidOf(call[c].jws.kid) = IssuerDidOf(call[c].jws)

VerifySteps == <<"parse", "issuer", "binding", "controller", "key", "signature">>

\* the step at which each error kind is raised
FailStep(result) ==
  CASE result = "MalformedInput" -> "parse"
    [] result \in {"MissingIssuer", "MissingIssuerId"} -> "issuer"
    [] result = "IssuerKeyMismatch" -> "binding"
    [] result = "ControllerNotFound" -> "controller"
    [] result = "KeyNotFound" -> "key"
    [] result = "SignatureInvalid" -> "signature"
    [] OTHER -> "none"

\* C3: verify returns a payload only if parse, issuer, binding check,
\* controller resolution, assertion-key resolution and signature verification
\* all succeeded; a failing step ends the call with its error and no later
\* step is executed.
C3_VerifiedOnlyIfEveryStepSucceeded ==
  \A c \in Calls :
    (IsVerify(c) /\ Done(c)) =>
      /\ IsPrefix(call[c].steps, VerifySteps)
      /\ call[c].result = "ok" =>
           /\ call[c].steps = VerifySteps
           /\ IssuerGiven(call[c].jws)
           /\ IsPrefix(call[c].jws.issuer.id, call[c].jws.kid)
           /\ call[c].rcResult = "ok" /\ Truthy(call[c].controller)
           /\ \E i \in 1..Len(call[c].assertion) :
                /\ call[c].assertion[i].id = call[c].jws.kid
                /\ call[c].assertion[i].publicKeyJwk = call[c].jws.signedBy
      /\ call[c].result # "ok" =>
           /\ call[c].steps # <<>>
           /\ call[c].steps[Len(call[c].steps)] = FailStep(call[c].result)

\* a verify call that went through every step and returned the payload
C3_Witness ==
  \E c \in Calls :
    /\ IsVerify(c) /\ Done(c)
    /\ call[c].result = "ok"
    /\ call[c].steps = VerifySteps
    /\ call[c].nreq = 1

\* C4: when the store holds a document under the DID of key id k (k with or
\* without a fragment), resolveController(k) issues no request and returns
\* the verifier sets built from that document.
C4_StoredDidServedLocally ==
  \A c \in Calls :
    (call[c].op # "none" /\ call[c].localAtStart.tag = "doc") =>
      /\ call[c].nreq = 0
      /\ Settled(c)
      /\ call[c].rcResult = "ok"
      /\ call[c].assertion = AssertionKeys(call[c].localAtStart)
      /\ call[c].authentication = AuthenticationKeys(call[c].localAtStart)

\* C5: once a resolveController call has fetched the document of a DID, every
\* later resolveController for a key id of that DID issues no request.
C5_FetchedDidServedFromCache ==
  \A c \in Calls :
    (call[c].op # "none" /\ call[c].afterFetch) => call[c].nreq = 0

\* the retrieval URL the did:web method assigns to a domain and path segments
ExpectedUrl(domain, segs) ==
  IF Len(segs) = 0
  THEN HttpsScheme \o domain \o Slash \o WellKnown \o Slash \o DidJson
  ELSE HttpsScheme \o domain \o SlashSegs(segs) \o Slash \o DidJson

\* C6: the URL requested for a did:web key id is derived from its DID without
\* the fragment: https://<domain>/.well-known/did.json when the DID has no
\* path segment, https://<domain>/<s1>/.../<sn>/did.json otherwise.
C6_RequestedUrl ==
  \A c \in Calls :
    call[c].nreq > 0 =>
      \A st \in DidWebStructs :
        call[c].id = StructId(st) =>
          /\ call[c].url = ExpectedUrl(st.domain, st.segs)
          /\ "#" \notin Range(call[c].url)

\* did:web:a:p:q#k is requested at https://a/p/q/did.json
C6_Witness ==
  \E c \in Calls :
    /\ call[c].nreq > 0
    /\ call[c].id = MkKeyId(DidAPQ, <<"k">>)
    /\ call[c].url = HttpsScheme \o <<"a", "/", "p", "/", "q", "/">> \o DidJson

FailedFetch(r) == r \in {"networkError", "notOk", "unparseable"}

\* C7: a fetch that fails (network error, status not ok, body that does not
\* parse) leaves the store as it was, and a later resolveController for the
\* same id that still finds nothing stored issues a request of its own and
\* succeeds when that request yields a document.
C7_FailedFetchNotCached ==
  [][\A c \in Calls :
       /\ (call[c].pc = "fetch" /\ FailedFetch(call'[c].fetchResult))
            => controllerLookup' = controllerLookup
       /\ (call'[c].afterFail /\ ~Truthy(call'[c].idAtStart))
            => /\ call'[c].nreq = 1
               /\ call'[c].fetchResult = "doc" => call'[c].rcResult = "ok"]_vars

\* a call for an id whose earlier fetch failed has fetched a document and
\* returned
C7_Witness ==
  \E c \in Calls :
    /\ call[c].afterFail
    /\ call[c].id \in failedIds
    /\ call[c].fetchResult = "doc"
    /\ call[c].rcResult = "ok"
    /\ Done(c)

IsDidWeb(id) == IsPrefix(DidWebPrefix, id)

\* C8: resolveController fails with the controller-not-found error exactly
\* when the id is not in the store and either it is not a did:web identifier
\* (then no request is issued) or the fetch yielded no document; otherwise it
\* returns both verifier sets.
C8_NotFoundExactlyWhenNoDocument ==
  \A c \in Calls :
    Settled(c) =>
      /\ (call[c].rcResult = "ControllerNotFound") <=>
           /\ call[c].idAtStart.tag # "doc"
           /\ ~IsDidWeb(call[c].id) \/ call[c].fetchResult # "doc"
      /\ ~IsDidWeb(call[c].id) => call[c].nreq = 0

ListedIn(member, id) == member.present /\ \E i \in 1..Len(member.items) : member.items[i] = id

\* C10: a credential whose kid the resolved controller document lists under
\* authentication but not under assertionMethod does not verify: the call
\* ends with the key-not-found error.
C10_AuthenticationKeyNeverVerifies ==
  \A c \in Calls :
    (/\ IsVerify(c) /\ Done(c)
     /\ call[c].rcResult = "ok"
     /\ call[c].controller.tag = "doc"
     /\ ListedIn(call[c].controller.doc.authentication, call[c].jws.kid)
     /\ ~ListedIn(call[c].controller.doc.assertionMethod, call[c].jws.kid))
    => call[c].result = "KeyNotFound"

\* kid did:web:a#u, issuer did:web:a, signed by the authentication key KU
\* that the fetched document lists under that kid
C10_Witness ==
  \E c \in Calls :
    /\ IsVerify(c) /\ Done(c)
    /\ call[c].jws.kid = KidAu
    /\ call[c].jws.signedBy = "KU"
    /\ call[c].jws.issuer \in {IssuerString(DidA), IssuerObject(DidA)}
    /\ call[c].controller = DocVal(DocA)
    /\ call[c].result = "KeyNotFound"

EntriesOf(doc) ==
  IF doc.verificationMethod.present THEN Range(doc.verificationMethod.items) ELSE {}

\* C9: the assertion set returned by resolveController holds exactly the
\* verificationMethod entries whose id is listed in assertionMethod, and the
\* authentication set exactly those whose id is listed in authentication; a
\* listed id without a verificationMethod entry contributes no key.
C9_PartitionByRole ==
  \A c \in Calls :
    (Settled(c) /\ call[c].controller.tag = "doc") =>
      LET d == call[c].controller.doc
      IN /\ call[c].rcResult = "ok"
         /\ Range(call[c].assertion) =
              {e \in EntriesOf(d) : ListedIn(d.assertionMethod, e.id)}
         /\ Range(call[c].authentication) =
              {e \in EntriesOf(d) : ListedIn(d.authentication, e.id)}

\* a document with one entry listed in both roles, one listed in neither,
\* and a listed id that has no entry
C9_Witness ==
  \E c \in Calls :
    /\ Done(c)
    /\ call[c].controller =
         DocVal(MkDoc(Some(<<VM(KidAk, "KA"), VM(KidAu, "KU")>>),
                      Some(<<KidAk, KidAPk>>), Some(<<KidAk>>)))
    /\ call[c].assertion = <<VM(KidAk, "KA")>>
    /\ call[c].authentication = <<VM(KidAk, "KA")>>

C13_ValidatorFromLatestSchema ==
  /\ schemaLog.last.outcome = "ok" =>
       /\ schemaLog.last.validator.tag = "validator"
       /\ schemaLog.last.validator.of = schemaLog.last.latest
  /\ \A id \in SchemaIds :
       compiledSchemaCache[id].tag = "validator" =>
         compiledSchemaCache[id].of = schemaLog.latest[id]

\* C14: resolveSchema(id) fails with the schema-not-found error when no
\* schema is stored for id, and succeeds when one has been stored
C14_NotFoundExactlyWhenNotStored ==
  schemaLog.last.outcome # "none" =>
    IF schemaLog.last.stored
    THEN schemaLog.last.outcome = "ok"
    ELSE schemaLog.last.outcome = "SchemaNotFound"

Suspended(c) == call[c].pc = "fetch"

\* C15: while a resolveController call is suspended on its request, every
\* other call can be made and completes or suspends on a request of its
\* own; a call whose request yields a document returns successfully and
\* leaves a document stored for its DID, also when another call has
\* requested the same DID at the same time
C15_FetchesDoNotSerialize ==
  /\ \A c \in Calls :
       (Suspended(c) /\ Quiet) =>
         /\ \A d \in Calls, id \in ConcurrentIds :
              (d # c /\ started < MaxCalls /\ call[d].pc = "idle"
                 /\ \A e \in Calls : e < d => call[e].pc # "idle")
                => ENABLED ResolveController(d, id)
         /\ adds < MaxAdds =>
              \A id \in AddIds, doc \in Docs : ENABLED AddController(id, doc)
         /\ schemaLog.ops < MaxSideOps =>
              \A id \in ConcurrentSchemaIds :
                /\ ENABLED ResolveSchema(id)
                /\ \A schema \in ConcurrentSchemas : ENABLED AddSchema(id, schema)
  /\ \A c \in Calls :
       (Done(c) /\ call[c].fetchResult = "doc") =>
         /\ call[c].result = "ok"
         /\ controllerLookup[call[c].did].tag = "doc"

\* two calls requested one DID at the same time, both requests yielded a
\* document, and the second call has returned successfully
C15_Witness ==
  \E c \in Calls :
    /\ Done(c)
    /\ call[c].peerOk
    /\ call[c].nreq = 1
    /\ call[c].fetchResult = "doc"
    /\ call[c].result = "ok"
    /\ controllerLookup[call[c].did].tag = "doc"

IsPresentationCreate == cli.input.op = "presentation create"

\* the exp of a payload lies before the clock reading
ExpInPast(payload, nowMs) ==
  payload.exp.present /\ payload.exp.n * MsPerSecond < nowMs

\* the nbf of a payload lies after the clock reading
NbfInFuture(payload, nowMs) ==
  payload.nbf.present /\ payload.nbf.n * MsPerSecond > nowMs

Usable(payload, nowMs) ==
  payload.verifies /\ ~ExpInPast(payload, nowMs) /\ ~NbfInFuture(payload, nowMs)

\* C16: 'presentation create' packages a credential only if it verified, its
\* exp is not in the past and its nbf is not in the future at the clock
\* reading, and it stops on no other ground once holder and key are there
C16_ExpiredOrEarlyRejected ==
  (IsPresentationCreate /\ cli.outcome \notin {"NoHolder", "NoAuthenticationKey"}) =>
    (cli.outcome = "created" <=>
       \A i \in 1..Len(cli.input.creds) : Usable(cli.input.creds[i], cli.input.nowMs))

\* C18: a presentation that was created carries iat and exp, with exp - iat
\* the value of --expires-in, or 3600 when the option is not given
C18_PresentationAlwaysExpires ==
  (IsPresentationCreate /\ cli.outcome = "created") =>
    /\ cli.output.iat.present
    /\ cli.output.exp.present
    /\ cli.output.exp.n - cli.output.iat.n =
         (IF cli.input.expiresIn.present
          THEN ParseInt(cli.input.expiresIn.value)
          ELSE DefaultExpiresIn)

IsCredentialSign == cli.input.op = "credential sign"

\* C19: a credential signed with --issuer D names D as its issuer and carries
\* the kid D#<kid of the assertion key>, whatever the environment and the
\* input file name as issuer
C19_IssuerOptionOverrides ==
  (IsCredentialSign /\ cli.outcome = "signed" /\ TruthyOption(cli.input.issuer)) =>
    /\ cli.output.issuer = IssuerString(cli.input.issuer.value)
    /\ cli.output.kid = cli.input.issuer.value \o <<"#">> \o AssertionKid

\* command r is a 'did generate' of the input built from domain and segs
GeneratedFrom(r, domain, segs) ==
  /\ r.input.op = "did generate"
  /\ r.outcome = "generated"
  /\ r.input.domainInput = DomainInput(domain, segs)

\* C20: the identifier generated for <domain>[/p1/.../pn] is
\* did:web:<domain>[:p1:...:pn], and both the resolver and 'did verify'
\* request it at https://<domain>/.well-known/did.json when there is no path
\* and at https://<domain>/p1/.../pn/did.json otherwise
C20_GeneratedDidHostLocation ==
  \A domain \in Domains, segs \in SegLists :
    /\ GeneratedFrom(cli, domain, segs) =>
         /\ cli.output.did = MkDidWeb(domain, segs)
         /\ \A c \in Calls :
              call[c].nreq > 0 => call[c].url = ExpectedUrl(domain, segs)
    /\ (cli.input.op = "did verify" /\ GeneratedFrom(cli.input.from, domain, segs)) =>
         /\ cli.output.url = ExpectedUrl(domain, segs)
         /\ \A c \in Calls :
              call[c].nreq > 0 => call[c].url = ExpectedUrl(domain, segs)

\* the identifier generated for a/p/q has been requested by the resolver
\* and by 'did verify' at https://a/p/q/did.json
C20_Witness ==
  /\ cli.input.op = "did verify"
  /\ GeneratedFrom(cli.input.from, <<"a">>, <<<<"p">>, <<"q">>>>)
  /\ cli.input.did = DidAPQ
  /\ cli.output.url = HttpsScheme \o <<"a", "/", "p", "/", "q", "/">> \o DidJson
  /\ \E c \in Calls : call[c].nreq > 0 /\ call[c].url = cli.output.url

\* call c verifies the credential issued for the generated identifier, and
\* the resolver held the generated document for that identifier when the
\* call began
RoundTripCall(c) ==
  /\ HasIssued
  /\ IsVerify(c)
  /\ Done(c)
  /\ call[c].jws = cli.output
  /\ call[c].localAtStart = DocVal(cli.input.from.output.document)

\* C17: a credential issued for a generated identifier with the generated
\* key file verifies against a resolver that holds the generated document
\* for the identifier: binding, controller, key and signature all pass and
\* verify returns the payload
C17_RoundTripVerifies ==
  \A c \in Calls :
    RoundTripCall(c) =>
      /\ call[c].result = "ok"
      /\ call[c].steps = <<"parse", "issuer", "binding", "controller", "key", "signature">>

\* C21: 'presentation create' signs only with the authentication key of the
\* private-key file and issueCredential only with its assertion key; a file
\* without the key of the command's role makes the command fail with nothing
\* signed, whether or not the key of the other role is there
C21_SigningKeyRoles ==
  /\ IsPresentationCreate =>
       /\ cli.outcome = "created" =>
            /\ cli.input.keys.authentication
            /\ cli.output.signedBy = AuthenticationKeyName
       /\ ~cli.input.keys.authentication =>
            /\ cli.outcome # "created"
            /\ cli.output = NoPresentation
  /\ IsCredentialSign =>
       /\ cli.outcome = "signed" =>
            /\ cli.input.keys.assertion
            /\ cli.output.signedBy = AssertionKeyName
       /\ ~cli.input.keys.assertion =>
            /\ cli.outcome # "signed"
            /\ cli.output = Malformed

\* a presentation was asked for with a holder, usable credentials and a key
\* file that has the assertion key only, and the command failed
C21_Witness ==
  /\ IsPresentationCreate
  /\ TruthyOption(cli.input.holder)
  /\ cli.input.keys = KeyFile(TRUE, FALSE)
  /\ \A i \in 1..Len(cli.input.creds) : Usable(cli.input.creds[i], cli.input.nowMs)
  /\ cli.outcome = "NoAuthenticationKey"

\* C22: every signed object of the issuing workflows carries a header kid
\* that is the signer's DID, '#', and the kid of the signing key: the issuer
\* DID for a credential, the holder DID for a presentation
C22_HeaderKidIsDidPlusFragment ==
  /\ (IsCredentialSign /\ cli.outcome = "signed") =>
       cli.output.kid = IssuerDidOf(cli.output) \o <<"#">> \o AssertionKid
  /\ (IsPresentationCreate /\ cli.outcome = "created") =>
       cli.output.kid = cli.output.holder \o <<"#">> \o AuthenticationKid

IsCredentialIssue == cli.input.op = "credential issue"

\* a type array with the base type and at least one other type
HasBaseAndSpecific(types) ==
  /\ \E i \in 1..Len(types) : types[i] = BaseType
  /\ \E i \in 1..Len(types) : types[i] # BaseType

\* C23: a credential signed by 'credential issue' or 'credential sign' has a
\* type array that holds VerifiableCredential and at least one other type
C23_TypeHasBaseAndSpecific ==
  ((IsCredentialSign \/ IsCredentialIssue) /\ cli.outcome = "signed") =>
    HasBaseAndSpecific(cli.output.type)

OrderedSteps == VerifySteps \o <<"schema">>

\* step s of the verify call c has been started
Started(c, s) == \E i \in 1..Len(call[c].steps) : call[c].steps[i] = s

\* the header kid of call c is in the assertion set of the resolved controller
KeyResolved(c) ==
  \E i \in 1..Len(call[c].assertion) : call[c].assertion[i].id = call[c].jws.kid

\* the signature of call c was made by the key listed under its header kid
SignatureVerified(c) ==
  \E i \in 1..Len(call[c].assertion) :
    /\ call[c].assertion[i].id = call[c].jws.kid
    /\ call[c].assertion[i].publicKeyJwk = call[c].jws.signedBy

\* each step of call c was started only after the step before it succeeded
StepsInOrder(c) ==
  /\ IsPrefix(call[c].steps, OrderedSteps)
  /\ (Started(c, "controller") \/ call[c].nreq > 0) =>
       /\ IssuerGiven(call[c].jws)
       /\ IsPrefix(call[c].jws.issuer.id, call[c].jws.kid)
  /\ Started(c, "key") => (call[c].rcResult = "ok" /\ Truthy(call[c].controller))
  /\ Started(c, "signature") => KeyResolved(c)
  /\ (Started(c, "schema") \/ call[c].pc = "schema") =>
       (SignatureVerified(c) /\ call[c].validateSchema)

\* C24: in every verify call the steps run in the order parse, issuer,
\* binding, controller, key, signature, schema; a step starts only after the
\* step before it succeeded, and the schema side is used only by a call that
\* asked for validateSchema and whose signature was verified
C24_StepsStrictlyOrdered ==
  [][/\ \A c \in Calls : IsVerify(c)' => StepsInOrder(c)'
     /\ schemaLog' # schemaLog =>
          \E c \in Calls :
            /\ IsVerify(c) /\ call[c].pc = "schema"
            /\ call[c].validateSchema /\ SignatureVerified(c)]_vars

\* a verify call with validateSchema fetched the controller and went through
\* all seven steps
C24_Witness ==
  \E c \in Calls :
    /\ IsVerify(c) /\ Done(c)
    /\ call[c].validateSchema
    /\ call[c].nreq = 1
    /\ call[c].steps = OrderedSteps
    /\ call[c].result = "ok"
    /\ schemaLog.last.outcome = "ok"

\* the errors of verify raised before the controller is resolved
EarlyFailures == {"MalformedInput", "MissingIssuer", "MissingIssuerId", "IssuerKeyMismatch"}

\* the step is a verify call c that fails before resolving the controller
FailsEarly(c) ==
  /\ call[c].pc = "idle"
  /\ IsVerify(c)'
  /\ call'[c].result \in EarlyFailures

\* the state of the resolver is left as it was
ResolverUntouched ==
  UNCHANGED <<controllerLookup, schemaLookup, compiledSchemaCache, fetchedDids, failedIds>>

\* C25: a verify call that fails at parsing, at the issuer or at the binding
\* check issues no request and leaves the stores and the validator cache
\* unchanged; a verify call issues a request only for a DID that extends the
\* issuer string of the payload
C25_EarlyFailureTouchesNothing ==
  [][\A c \in Calls :
       /\ FailsEarly(c) => (call'[c].nreq = 0 /\ ResolverUntouched)
       /\ (IsVerify(c)' /\ call'[c].nreq > 0) =>
            IsPrefix(call'[c].jws.issuer.id, call'[c].did)]_vars

\* C26: a resolveController call and a verify call each issue at most one
\* request, whether the request succeeds or fails; a call whose request
\* failed ends with the error and is not started again by the resolver
C26_NoInternalRetry ==
  \A c \in Calls :
    /\ call[c].nreq <= 1
    /\ (call[c].pc = "fetch") => (call[c].nreq = 1 /\ call[c].fetchResult = "none")
    /\ (call[c].fetchResult \in {"networkError", "notOk"}) =>
         (Done(c) /\ call[c].nreq = 1
            /\ call[c].result = "ControllerNotFound")

\* a verify call whose one request met a response that was not ok
C26_Witness ==
  \E c \in Calls :
    /\ IsVerify(c) /\ Done(c)
    /\ call[c].nreq = 1
    /\ call[c].fetchResult = "notOk"
    /\ call[c].result = "ControllerNotFound"

IsCredentialVerify == cli.input.op = "credential verify"

\* C27: 'credential verify' prints the verified message and returns exactly
\* when verifier.verify returned the payload and, with --schema, the payload
\* satisfied the schema; otherwise it exits with status 1; and the payload is
\* run against the schema only after verify returned it
C27_VerifiedOnlyIfVerifiedAndValid ==
  IsCredentialVerify =>
    /\ cli.output.success <=>
         /\ cli.input.files.exists
         /\ cli.input.files.readable
         /\ cli.input.files.verifies
         /\ TruthyOption(cli.input.schema) =>
              /\ cli.input.files.schemaExists
              /\ cli.input.files.schemaCompiles
              /\ cli.input.files.valid
    /\ cli.output.success => ~cli.output.exit.present
    /\ ~cli.output.success => cli.output.exit = Num(ExitFailure)
    /\ cli.output.schemaRun =>
         cli.input.files.exists /\ cli.input.files.readable
           /\ cli.input.files.verifies

\* the credential verified, but its payload failed the schema of --schema
C27_Witness ==
  /\ IsCredentialVerify
  /\ cli.input.files.verifies
  /\ TruthyOption(cli.input.schema)
  /\ cli.output.schemaRun
  /\ ~cli.input.files.valid
  /\ cli.outcome = "SchemaInvalid"
  /\ cli.output.exit = Num(ExitFailure)

\* the ground on which createPresentation stops at a loaded credential, or
\* "none" when the credential passes verify and the exp and nbf tests
RejectionOf(credential, nowMs) ==
  IF credential.blank THEN "MissingCredentialData"
  ELSE IF ~credential.verifies THEN "VerificationFailed"
  ELSE IF credential.exp.present /\ credential.exp.n # 0
          /\ credential.exp.n * MsPerSecond < nowMs THEN "Expired"
  ELSE IF credential.nbf.present /\ credential.nbf.n # 0
          /\ credential.nbf.n * MsPerSecond > nowMs THEN "NotYetValid"
  ELSE "none"

\* positions, in load order, of the credentials that do not pass
FailingAt(creds, nowMs) ==
  {i \in 1..Len(creds) : RejectionOf(creds[i], nowMs) # "none"}

\* C28: with holder and key in place, 'presentation create' signs exactly
\* when every loaded credential passes verify and the exp and nbf tests;
\* otherwise it ends on the ground of the first credential that fails, with
\* nothing signed; a presentation that was signed holds one
\* EnvelopedVerifiableCredential per loaded credential, in load order
C28_AllCredentialsPassOrNothingSigned ==
  IsPresentationCreate =>
    LET creds == cli.input.creds
        failing == FailingAt(creds, cli.input.nowMs)
        enveloped == cli.output.verifiableCredential
    IN /\ cli.outcome # "created" => cli.output = NoPresentation
       /\ cli.outcome = "created" =>
            /\ failing = {}
            /\ cli.output.signedBy # "none"
            /\ Len(enveloped) = Len(creds)
            /\ \A i \in 1..Len(creds) :
                 /\ enveloped[i].type = "EnvelopedVerifiableCredential"
                 /\ enveloped[i].jwt = creds[i]
       /\ cli.outcome \notin {"NoHolder", "NoAuthenticationKey"} =>
            /\ failing = {} => cli.outcome = "created"
            /\ failing # {} =>
                 LET first == CHOOSE i \in failing : \A j \in failing : i <= j
                 IN cli.outcome = RejectionOf(creds[first], cli.input.nowMs)

\* two different credentials were loaded, both passed, and the presentation
\* holds them in the order they were loaded
C28_Witness ==
  /\ IsPresentationCreate
  /\ cli.outcome = "created"
  /\ Len(cli.input.creds) = 2
  /\ cli.input.creds[1] # cli.input.creds[2]
  /\ cli.output.verifiableCredential[1].jwt = cli.input.creds[1]
  /\ cli.output.verifiableCredential[2].jwt = cli.input.creds[2]


\* the validity window of a payload, in either form, has closed before the
\* clock reading
Expired(payload, nowMs) ==
  \/ payload.exp.present /\ payload.exp.n * MsPerSecond < nowMs
  \/ payload.validUntil.present /\ payload.validUntil.ms < nowMs

\* the validity window of a payload, in either form, opens after the clock
\* reading
NotYetValid(payload, nowMs) ==
  \/ payload.nbf.present /\ payload.nbf.n * MsPerSecond > nowMs
  \/ payload.validFrom.present /\ payload.validFrom.ms > nowMs

\* C30: a presentation that was created holds no credential that is expired
\* or not yet valid at the clock reading, whether the window is given as exp
\* and nbf or as validFrom and validUntil
C30_NoCredentialOutsideItsWindow ==
  (IsPresentationCreate /\ cli.outcome = "created") =>
    \A i \in 1..Len(cli.output.verifiableCredential) :
      /\ ~Expired(cli.output.verifiableCredential[i].jwt, cli.input.nowMs)
      /\ ~NotYetValid(cli.output.verifiableCredential[i].jwt, cli.input.nowMs)


\* C29: a document installed with addController(d, doc) is not replaced by a
\* fetched document: the step that follows the installation, which can be
\* the settling of a request that was in flight when addController ran, is
\* another addController(d, ...) or leaves doc as the entry for d
C29_InstalledDocumentNotReplaced ==
  [][lastAdd.id # <<>> =>
       \/ controllerLookup'[lastAdd.id] = DocVal(lastAdd.doc)
       \/ lastAdd'.id = lastAdd.id]_vars

====
